---- MODULE Spec2Model ----
(***************************************************************************)
(* InkMade (inkycal): the refresh policy of run_once (src/inkycal/main.py) *)
(* over the persisted State file (src/inkycal/state.py) and the e-ink      *)
(* display (src/inkycal/display_inky.py).                                  *)
(*                                                                         *)
(* Time is counted in minutes since 00:00 of day 0 in the configured time  *)
(* zone.  A text the program stores is modelled as a tuple: <<>> is the    *)
(* empty string "", <<d>> is the date string of day d, <<d, m>> is the ISO *)
(* timestamp of minute m of day d.                                         *)
(***************************************************************************)
EXTENDS Integers, Sequences, FiniteSets, TLC

VARIABLES cfg, clock, file, display, run, hist, pure

vars == <<cfg, clock, file, display, run, hist, pure>>

(* ------------------------------ bounds -------------------------------- *)

\* The wall clock advances in steps of ClockStep minutes, up to MaxClock.
ClockStep == 30
MaxClock == 1500

\* The sample times of the sleep-window membership check are WindowStep apart.
WindowStep == 30

(* --------------------------- program constants ------------------------ *)

DayMinutes == 24 * 60

\* timedelta(hours=1), the threshold run_once passes to _should_force_hourly_refresh
HourlyThreshold == 60

\* the run_once invocations; Spec runs them one after the other
Procs == {1}

\* what the providers, the alert lookup and the wifi/UPS probes can return,
\* as far as the signature sees it
Contents == {"A", "B"}

\* sleep sections of config.yaml: the defaults of load_config (overnight), a
\* window inside one day, and sleep disabled
SleepConfigs ==
    { [enabled |-> TRUE,  start |-> <<22, 30>>, end |-> <<6, 30>>],
      [enabled |-> TRUE,  start |-> <<1, 0>>,   end |-> <<5, 0>>],
      [enabled |-> FALSE, start |-> <<22, 30>>, end |-> <<6, 30>>] }

(* ------------------------------ time and text ------------------------- *)

\* _parse_hhmm: "HH:MM" -> time of day
parse_hhmm(s) == s[1] * 60 + s[2]

\* now.timetz().replace(tzinfo=None): the time of day of an instant
TimeOfDay(now) == now % DayMinutes

\* now.strftime("%Y-%m-%d")
today_str_of(now) == << now \div DayMinutes >>

\* now.strftime("%A, %B %-d, %Y")
header_date_of(now) == << now \div DayMinutes >>

\* now.isoformat()
isoformat(now) == << now \div DayMinutes, now % DayMinutes >>

\* datetime.fromisoformat: defined on timestamps only (ValueError otherwise)
IsIso(s) == Len(s) = 2
fromisoformat(s) == s[1] * DayMinutes + s[2]

(* ------------------------------ state.py ------------------------------ *)

\* State(): the dataclass defaults
State0 == [last_hash |-> <<>>, last_rendered_iso |-> <<>>, last_sleep_banner_date |-> <<>>]

\* the state file: absent, holding a JSON document, or cut short (opened for
\* writing and truncated, the document not yet written)
FileAbsent == [kind |-> "absent", data |-> State0]
FileTruncated == [kind |-> "truncated", data |-> State0]
FileJson(state) == [kind |-> "json", data |-> state]

\* load_state: defaults when the file is absent, json.loads raises on a file
\* that holds no complete document
LoadRaises(f) == f.kind = "truncated"
load_state(f) == IF f.kind = "json" THEN f.data ELSE State0

(* ------------------------------ main.py ------------------------------- *)

IsInSleepWindowInclusiveEnd(now, start, end) ==
    LET t == TimeOfDay(now)
    IN  IF start < end THEN start <= t /\ t <= end
        ELSE (t >= start) \/ (t <= end)

\* _is_in_sleep_window: "Handles overnight windows (e.g., 22:30 -> 06:30)"
is_in_sleep_window(now, start, end) ==
    LET t == TimeOfDay(now)
    IN  IF start < end THEN start <= t /\ t < end
        ELSE (t >= start) \/ (t < end)

ShouldForceHourlyStrict(state, now, threshold) ==
    IF state.last_rendered_iso = <<>> THEN FALSE
    ELSE IF ~IsIso(state.last_rendered_iso) THEN FALSE
    ELSE (now - fromisoformat(state.last_rendered_iso)) > threshold

should_force_hourly_refresh(state, now, threshold) ==
    IF state.last_rendered_iso = <<>> THEN FALSE
    ELSE IF ~IsIso(state.last_rendered_iso) THEN FALSE
    ELSE (now - fromisoformat(state.last_rendered_iso)) >= threshold

\* _events_signature: the digest is taken as injective on the payload, of which
\* the header date, the banner flag and the rest (events, alerts, wifi, UPS) count
events_signature(content, header_date, sleep_banner) ==
    << header_date, sleep_banner, content >>

\* run_once, lines 361-370
in_sleep_of(c, now) ==
    c.enabled /\ is_in_sleep_window(now, parse_hhmm(c.start), parse_hhmm(c.end))

ShouldApplyAlways(c, in_sleep, state, today_str) ==
    c.enabled /\ in_sleep

should_apply_sleep_banner_of(c, in_sleep, state, today_str) ==
    IF c.enabled /\ in_sleep
    THEN state.last_sleep_banner_date # today_str
    ELSE FALSE

\* run_once, line 373: "During sleep: do nothing unless ..."
sleep_suppressed(in_sleep, should_apply, force, deep_clean) ==
    in_sleep /\ ~should_apply /\ ~force /\ ~deep_clean

SkipRefreshNoHourly(force, deep_clean, should_apply, should_force_hourly, sig, state) ==
    ~force /\ ~deep_clean /\ ~should_apply /\ sig = state.last_hash

SkipRefreshOnChangedHash(force, deep_clean, should_apply, should_force_hourly, sig, state) ==
    ~force /\ ~deep_clean /\ ~should_apply /\ ~should_force_hourly
        /\ sig # state.last_hash

\* run_once, lines 405-413: "No schedule change; skipping display refresh"
skip_refresh(force, deep_clean, should_apply, should_force_hourly, sig, state) ==
    ~force /\ ~deep_clean /\ ~should_apply /\ ~should_force_hourly
        /\ sig = state.last_hash

UpdatedStateKeepsBannerDate(state, sig, now, should_apply, today_str) ==
    [state EXCEPT !.last_hash = sig,
                  !.last_rendered_iso = isoformat(now)]

UpdatedStateStampsBannerDate(state, sig, now, should_apply, today_str) ==
    [state EXCEPT !.last_hash = sig,
                  !.last_rendered_iso = isoformat(now),
                  !.last_sleep_banner_date = today_str]

\* run_once, lines 445-448
updated_state(state, sig, now, should_apply, today_str) ==
    [state EXCEPT !.last_hash = sig,
                  !.last_rendered_iso = isoformat(now),
                  !.last_sleep_banner_date =
                      IF should_apply THEN today_str ELSE @]

(* ------------------------------ run records --------------------------- *)

Idle ==
    [pc |-> "idle", force |-> FALSE, deep_clean |-> FALSE, now |-> 0,
     state |-> State0, in_sleep |-> FALSE, should_apply |-> FALSE,
     fetched |-> FALSE, sig |-> <<>>, hourly |-> FALSE, decision |-> "none",
     show_called |-> FALSE, shown |-> FALSE, outcome |-> "none",
     aborted_at |-> "none",
     file_at_start |-> FileAbsent]

NoDisplay == [lit |-> FALSE, banner |-> FALSE]

\* hist is a history variable, read by the properties only: the completed
\* banner-applying renders of the current stay in the sleep window and of the
\* current calendar day, and whether any run so far had force or deep_clean
Hist0 == [stay_banners |-> 0, day_banners |-> 0, forced |-> FALSE]

\* pure holds the arguments and the result of a function checked on its own
PureNone == [op |-> "none", now |-> 0, start |-> <<0, 0>>, end |-> <<0, 0>>,
             result |-> FALSE]

Init ==
    /\ cfg \in SleepConfigs
    /\ clock = 0
    /\ file = FileAbsent
    /\ display = NoDisplay
    /\ run = [p \in Procs |-> Idle]
    /\ hist = Hist0
    /\ pure = PureNone

(* ------------------------------ run_once ------------------------------ *)

\* the banner flag of the signature and of the rendered image (line 396)
show_banner_of(r) == r.in_sleep /\ cfg.enabled

\* the history of banner applications: a completed render that applied the
\* banner counts for the current stay in the sleep window and the current day
Applied(h, r) ==
    IF r.should_apply
    THEN [h EXCEPT !.stay_banners = IF @ < 2 THEN @ + 1 ELSE @,
                   !.day_banners = IF @ < 2 THEN @ + 1 ELSE @]
    ELSE h

\* lines 351-375: load the state, read the clock, decide on sleep suppression
Begin(p, force, deep_clean) ==
    /\ \A q \in Procs : run[q].pc = "idle"
    /\ LET now == clock
           state == load_state(file)
           in_sleep == in_sleep_of(cfg, now)
           should_apply ==
               should_apply_sleep_banner_of(cfg, in_sleep, state, today_str_of(now))
           started == [Idle EXCEPT !.force = force, !.deep_clean = deep_clean,
                                   !.now = now, !.file_at_start = file]
       IN  run' = [run EXCEPT ![p] =
               IF LoadRaises(file)
               THEN [started EXCEPT !.pc = "done", !.outcome = "load_failed"]
               ELSE IF sleep_suppressed(in_sleep, should_apply, force, deep_clean)
               THEN [started EXCEPT !.pc = "done", !.outcome = "suppressed",
                                    !.state = state, !.in_sleep = in_sleep,
                                    !.should_apply = should_apply]
               ELSE [started EXCEPT !.pc = "fetch",
                                    !.state = state, !.in_sleep = in_sleep,
                                    !.should_apply = should_apply]]
    /\ hist' = [hist EXCEPT !.forced = @ \/ force \/ deep_clean]
    /\ UNCHANGED <<cfg, clock, file, display, pure>>

\* lines 377-413: fetch, compute the signature, decide whether to render
Fetch(p, content) ==
    /\ run[p].pc = "fetch"
    /\ LET r == run[p]
           sig == events_signature(content, header_date_of(r.now), show_banner_of(r))
           hourly == should_force_hourly_refresh(r.state, r.now, HourlyThreshold)
           fetched == [r EXCEPT !.fetched = TRUE, !.sig = sig, !.hourly = hourly]
       IN  run' = [run EXCEPT ![p] =
               IF skip_refresh(r.force, r.deep_clean, r.should_apply, hourly, sig, r.state)
               THEN [fetched EXCEPT !.pc = "done", !.decision = "skip",
                                    !.outcome = "skipped"]
               ELSE [fetched EXCEPT !.pc = "show", !.decision = "render"]]
    /\ UNCHANGED <<cfg, clock, file, display, hist, pure>>

ShowIgnoringFailure(p, hardware) ==
    /\ run[p].pc = "show"
    /\ run' = [run EXCEPT ![p] = [@ EXCEPT !.pc = "save", !.show_called = TRUE,
                                           !.shown = hardware]]
    /\ display' = IF hardware
                  THEN [lit |-> TRUE, banner |-> show_banner_of(run[p])]
                  ELSE display
    /\ UNCHANGED <<cfg, clock, file, hist, pure>>

\* lines 415-443 and show_on_inky: render and show; no display detected raises
Show(p, hardware) ==
    /\ run[p].pc = "show"
    /\ IF hardware
       THEN /\ display' = [lit |-> TRUE, banner |-> show_banner_of(run[p])]
            /\ run' = [run EXCEPT ![p] = [@ EXCEPT !.pc = "save",
                                                   !.show_called = TRUE,
                                                   !.shown = TRUE]]
       ELSE /\ display' = display
            /\ run' = [run EXCEPT ![p] = [@ EXCEPT !.pc = "done",
                                                   !.show_called = TRUE,
                                                   !.outcome = "show_failed"]]
    /\ UNCHANGED <<cfg, clock, file, hist, pure>>

\* lines 445-449 and save_state up to the opening of the file: write_text opens
\* the state file for writing, which truncates it
SaveOpen(p) ==
    /\ run[p].pc = "save"
    /\ LET r == run[p]
       IN  run' = [run EXCEPT ![p] = [r EXCEPT
               !.pc = "write",
               !.state = updated_state(r.state, r.sig, r.now, r.should_apply,
                                       today_str_of(r.now))]]
    /\ file' = FileTruncated
    /\ UNCHANGED <<cfg, clock, display, hist, pure>>

\* save_state: the document is written and the file closed; run_once returns
SaveWrite(p) ==
    /\ run[p].pc = "write"
    /\ file' = FileJson(run[p].state)
    /\ run' = [run EXCEPT ![p] = [@ EXCEPT !.pc = "done", !.outcome = "rendered"]]
    /\ hist' = Applied(hist, run[p])
    /\ UNCHANGED <<cfg, clock, display, pure>>

\* the run ends early: an exception no handler catches, or the process is killed
Abort(p) ==
    /\ run[p].pc \in {"fetch", "show", "save", "write"}
    /\ run' = [run EXCEPT ![p] = [@ EXCEPT !.pc = "done", !.outcome = "aborted",
                                           !.aborted_at = run[p].pc]]
    /\ UNCHANGED <<cfg, clock, file, display, hist, pure>>

\* the process exits; the scheduler may start the next run
Return(p) ==
    /\ run[p].pc = "done"
    /\ run' = [run EXCEPT ![p] = Idle]
    /\ UNCHANGED <<cfg, clock, file, display, hist, pure>>

\* time passes between runs (a run reads the clock once, at line 356, so time
\* passing inside a run changes nothing the run does)
Tick ==
    /\ \A q \in Procs : run[q].pc = "idle"
    /\ clock + ClockStep <= MaxClock
    /\ clock' = clock + ClockStep
    /\ hist' = [hist EXCEPT
           !.stay_banners = IF in_sleep_of(cfg, clock') THEN @ ELSE 0,
           !.day_banners = IF today_str_of(clock') = today_str_of(clock) THEN @ ELSE 0]
    /\ UNCHANGED <<cfg, file, display, run, pure>>

Next ==
    \/ Tick
    \/ \E p \in Procs, force \in BOOLEAN, deep_clean \in BOOLEAN :
           Begin(p, force, deep_clean)
    \/ \E p \in Procs, content \in Contents : Fetch(p, content)
    \/ \E p \in Procs, hardware \in BOOLEAN : Show(p, hardware)
    \/ \E p \in Procs : SaveOpen(p)
    \/ \E p \in Procs : SaveWrite(p)
    \/ \E p \in Procs : Abort(p)
    \/ \E p \in Procs : Return(p)

Spec == Init /\ [][Next]_vars

(* ------------------- _is_in_sleep_window on its own ------------------- *)

\* "HH:MM" texts and instants WindowStep minutes apart
HHMMs == { <<h, m>> : h \in 0..23, m \in { k \in 0..59 : k % WindowStep = 0 } }
Instants == { k \in 0..(DayMinutes - 1) : k % WindowStep = 0 }

InitWindow ==
    /\ cfg \in { c \in SleepConfigs : ~c.enabled }
    /\ clock = 0
    /\ file = FileAbsent
    /\ display = NoDisplay
    /\ run = [p \in Procs |-> Idle]
    /\ hist = Hist0
    /\ pure \in [op : {"args"}, now : Instants, start : HHMMs, end : HHMMs,
                 result : {FALSE}]

\* run_once, lines 358-361, with sleep enabled
ApplyWindow ==
    /\ pure.op = "args"
    /\ pure' = [pure EXCEPT
           !.op = "is_in_sleep_window",
           !.result = is_in_sleep_window(pure.now, parse_hhmm(pure.start),
                                         parse_hhmm(pure.end))]
    /\ UNCHANGED <<cfg, clock, file, display, run, hist>>

NextWindow == ApplyWindow

SpecWindow == InitWindow /\ [][NextWindow]_vars

(* ============================ properties ============================== *)

\* a run that has started and whose load_state returned
Loaded(r) == r.pc # "idle" /\ r.outcome # "load_failed"

\* the state the file held when the run started, as load_state reads it
Persisted(r) == load_state(r.file_at_start)

\* the instant lies in the half-open window [start, end) of the configuration,
\* counted round the clock from start
InWindow(c, now) ==
    LET s == parse_hhmm(c.start)
        e == parse_hhmm(c.end)
    IN  ((TimeOfDay(now) - s) % DayMinutes) < ((e - s) % DayMinutes)

\* the run started inside the sleep window with sleep enabled
StartedInSleep(r) == cfg.enabled /\ InWindow(cfg, r.now)

\* the banner is to be applied for the first time today
BannerPending(r) ==
    StartedInSleep(r) /\ Persisted(r).last_sleep_banner_date # today_str_of(r.now)

\* minutes between the last recorded render and the run's now
SinceRender(r) == r.now - fromisoformat(Persisted(r).last_rendered_iso)

HourElapsed(r) ==
    Persisted(r).last_rendered_iso # <<>> /\ SinceRender(r) >= HourlyThreshold

\* the run returned from run_once without an exception
Returned(r) == r.pc = "done" /\ r.outcome \in {"suppressed", "skipped", "rendered"}

(* C1: Refresh-skip.  A run whose computed signature equals the persisted      *)
(* last_hash, without force or deep_clean, with no sleep banner pending for    *)
(* today and less than one hour after last_rendered_iso, returns without       *)
(* calling show_on_inky and leaves the state file exactly as it found it.      *)
C1_RefreshSkip ==
    \A p \in Procs :
        LET r == run[p]
        IN  ( /\ Loaded(r) /\ r.fetched
              /\ r.sig = Persisted(r).last_hash
              /\ ~r.force /\ ~r.deep_clean
              /\ ~BannerPending(r)
              /\ Persisted(r).last_rendered_iso # <<>>
              /\ SinceRender(r) < HourlyThreshold )
            => ( /\ r.pc = "done" /\ r.outcome = "skipped"
                 /\ ~r.show_called
                 /\ file = r.file_at_start
                 /\ load_state(file) = Persisted(r) )

\* an unchanged schedule polled half an hour after a render
C1_Witness ==
    \E p \in Procs :
        /\ run[p].outcome = "skipped"
        /\ run[p].sig = Persisted(run[p]).last_hash
        /\ SinceRender(run[p]) > 0
        /\ file.kind = "json"

(* C2: Sleep suppression.  A run that starts inside the sleep window with     *)
(* sleep enabled, last_sleep_banner_date equal to today and neither force nor *)
(* deep_clean returns before fetching events, computing a signature,          *)
(* rendering or writing state, whatever the schedule holds and however long   *)
(* ago the last render was.                                                   *)
C2_SleepSuppression ==
    \A p \in Procs :
        LET r == run[p]
        IN  ( /\ Loaded(r)
              /\ StartedInSleep(r)
              /\ Persisted(r).last_sleep_banner_date = today_str_of(r.now)
              /\ ~r.force /\ ~r.deep_clean )
            => ( /\ r.pc = "done" /\ r.outcome = "suppressed"
                 /\ ~r.fetched /\ r.sig = <<>> /\ r.decision = "none"
                 /\ ~r.show_called
                 /\ file = r.file_at_start )

\* suppressed although more than an hour has passed since the last render
C2_Witness ==
    \E p \in Procs :
        /\ run[p].outcome = "suppressed"
        /\ HourElapsed(run[p])

\* one of the five reasons to render holds
RenderRequired(r) ==
    \/ r.force
    \/ r.deep_clean
    \/ BannerPending(r)
    \/ HourElapsed(r)
    \/ r.sig # Persisted(r).last_hash

(* C3: Render decision rule.  A run that is not sleep-suppressed (and is not  *)
(* ended by an exception before the display call) calls show_on_inky if and   *)
(* only if force, deep_clean, the banner is to be applied for the first time  *)
(* today, at least one hour has passed since the last render, or the          *)
(* signature differs from last_hash.  A run with force or deep_clean is never *)
(* suppressed, also inside the sleep window with the banner already applied.  *)
C3_RenderDecision ==
    \A p \in Procs :
        LET r == run[p]
        IN  /\ (Loaded(r) /\ (r.force \/ r.deep_clean)) => r.outcome # "suppressed"
            /\ (Loaded(r) /\ ~r.fetched)
                   => \/ r.outcome = "suppressed"
                      \/ r.pc = "fetch"
                      \/ r.outcome = "aborted" /\ r.aborted_at = "fetch"
            /\ r.fetched
                   => /\ (r.decision = "render") <=> RenderRequired(r)
                      /\ (r.decision = "skip") <=> ~RenderRequired(r)
            /\ (r.pc = "done" /\ r.outcome \in {"skipped", "rendered", "show_failed"})
                   => (r.show_called <=> RenderRequired(r))

\* a forced render inside the sleep window with the banner already applied
C3_Witness ==
    \E p \in Procs :
        /\ run[p].outcome = "rendered"
        /\ run[p].force
        /\ StartedInSleep(run[p])
        /\ ~BannerPending(run[p])
        /\ run[p].sig = Persisted(run[p]).last_hash
        /\ ~HourElapsed(run[p])

(* C4: State update on render.  After a run that rendered and returned, the   *)
(* state file holds last_hash = the signature of that run and                 *)
(* last_rendered_iso = that run's now; last_sleep_banner_date is today's date *)
(* when the banner was newly applied in the run and its previous value        *)
(* otherwise.                                                                 *)
C4_StateUpdateOnRender ==
    \A p \in Procs :
        LET r == run[p]
            before == Persisted(r)
        IN  (r.pc = "done" /\ r.outcome = "rendered")
            => /\ file.kind = "json"
               /\ load_state(file).last_hash = r.sig
               /\ IsIso(load_state(file).last_rendered_iso)
               /\ fromisoformat(load_state(file).last_rendered_iso) = r.now
               /\ load_state(file).last_sleep_banner_date =
                      IF StartedInSleep(r)
                          /\ before.last_sleep_banner_date # today_str_of(r.now)
                      THEN today_str_of(r.now)
                      ELSE before.last_sleep_banner_date

\* a render outside the sleep window that keeps an earlier day's banner date
C4_Witness ==
    \E p \in Procs :
        /\ run[p].outcome = "rendered"
        /\ ~StartedInSleep(run[p])
        /\ file.data.last_sleep_banner_date # <<>>
        /\ file.data.last_sleep_banner_date # today_str_of(run[p].now)

(* C5: Banner exactly once per sleep-window entry.  Over non-overlapping,     *)
(* non-forced runs with sleep enabled, during every contiguous stay inside    *)
(* the sleep window the banner-applying render happens exactly once: never a  *)
(* second time in the same stay, and a run of the stay is suppressed only     *)
(* when the banner has been applied during that stay.                         *)
C5_BannerOncePerStay ==
    (cfg.enabled /\ ~hist.forced)
    => /\ hist.stay_banners <= 1
       /\ \A p \in Procs :
              (run[p].pc = "done" /\ run[p].outcome = "suppressed")
              => hist.stay_banners = 1

(* C6: At most one banner application per calendar day.  At most one run per  *)
(* calendar date completes a render that applies the banner and records the   *)
(* date; from then on the state file holds that date for the rest of the day, *)
(* and every later run of the day sees the banner as already applied.         *)
C6_OneBannerPerDay ==
    /\ hist.day_banners <= 1
    /\ hist.day_banners = 1
       => /\ file.kind # "absent"
          /\ file.kind = "json"
                 => file.data.last_sleep_banner_date = today_str_of(clock)
          /\ \A p \in Procs :
                 LET r == run[p]
                 IN  (Loaded(r) /\ BannerPending(r))
                     => /\ r.pc = "done" /\ r.outcome = "rendered"
                        /\ r.should_apply

\* a later run on the day of the application, which finds the banner applied
C6_Witness ==
    /\ hist.day_banners = 1
    /\ \E p \in Procs :
           /\ run[p].outcome = "suppressed"
           /\ Persisted(run[p]).last_sleep_banner_date = today_str_of(clock)

(* C7: State is mutated only after a successful render.  As long as a run     *)
(* has not completed a successful display call (it was suppressed, skipped,   *)
(* ended by an exception, or show_on_inky raised) the state file is identical *)
(* to what it was before the run, so the next run loads the same state.       *)
C7_StateOnlyAfterRender ==
    \A p \in Procs :
        LET r == run[p]
        IN  /\ (r.pc # "idle" /\ ~r.shown)
                   => /\ file = r.file_at_start
                      /\ load_state(file).last_hash = Persisted(r).last_hash
            /\ (r.pc # "idle" /\ file # r.file_at_start)
                   => /\ r.shown
                      /\ \/ r.pc = "write"
                         \/ r.pc = "done" /\ r.outcome = "rendered"
                         \/ r.pc = "done" /\ r.outcome = "aborted"
                                /\ r.aborted_at = "write"

\* show_on_inky raised on a changed schedule: the old last_hash is still there
C7_Witness ==
    \E p \in Procs :
        /\ run[p].outcome = "show_failed"
        /\ file.kind = "json"
        /\ run[p].sig # file.data.last_hash

(* C8: Atomic state persistence.  If the process is interrupted during the    *)
(* end-of-run save_state, a later load_state reads either the complete        *)
(* previous state or the complete new state, never an empty or unparsable     *)
(* file.                                                                      *)
C8_AtomicPersistence ==
    \A p \in Procs :
        LET r == run[p]
        IN  (r.pc = "done" /\ r.outcome = "aborted" /\ r.aborted_at = "write")
            => /\ ~LoadRaises(file)
               /\ \/ file = r.file_at_start
                  \/ file = FileJson(r.state)

(* C9: Hourly refresh floor.  A run that reaches the decision at least one    *)
(* hour (boundary included) after the persisted last_rendered_iso renders;    *)
(* hence after every run that returns without being sleep-suppressed the      *)
(* recorded last render is less than one hour before that run's now, so with  *)
(* such runs at most P apart two renders are never more than 1 hour + P apart.*)
C9_HourlyFloor ==
    \A p \in Procs :
        LET r == run[p]
        IN  /\ (r.fetched /\ HourElapsed(r))
                   => r.decision = "render" /\ r.outcome # "skipped"
            /\ (r.pc = "done" /\ r.outcome \in {"skipped", "rendered"})
                   => /\ file.kind = "json"
                      /\ IsIso(file.data.last_rendered_iso)
                      /\ r.now - fromisoformat(file.data.last_rendered_iso)
                             < HourlyThreshold

\* unchanged content, no flags, no banner: rendered exactly one hour after the last
C9_Witness ==
    \E p \in Procs :
        LET r == run[p]
        IN  /\ r.outcome = "rendered"
            /\ ~r.force /\ ~r.deep_clean /\ ~BannerPending(r)
            /\ r.sig = Persisted(r).last_hash
            /\ Persisted(r).last_rendered_iso # <<>>
            /\ SinceRender(r) = HourlyThreshold

\* the instant HH:MM of day 0
At(h, m) == parse_hhmm(<<h, m>>)

(* C10: Sleep-window membership.  _is_in_sleep_window treats the window as    *)
(* half-open [start, end): for start < end, t is inside iff start <= t < end; *)
(* for start > end (overnight), iff t >= start or t < end.  For 22:30 to      *)
(* 06:30: 23:00, 05:00 and 22:30 are inside, 12:00 and 06:30 are outside.     *)
C10_SleepWindowMembership ==
    /\ pure.op = "is_in_sleep_window"
       => LET t == TimeOfDay(pure.now)
              start == parse_hhmm(pure.start)
              end == parse_hhmm(pure.end)
          IN  /\ start < end => (pure.result <=> (start <= t /\ t < end))
              /\ start > end => (pure.result <=> (t >= start \/ t < end))
              /\ start # end
                     => (pure.result <=>
                             ((t - start) % DayMinutes) < ((end - start) % DayMinutes))
    /\ is_in_sleep_window(At(23, 0), At(22, 30), At(6, 30))
    /\ is_in_sleep_window(At(5, 0), At(22, 30), At(6, 30))
    /\ ~is_in_sleep_window(At(12, 0), At(22, 30), At(6, 30))
    /\ is_in_sleep_window(At(22, 30), At(22, 30), At(6, 30))
    /\ ~is_in_sleep_window(At(6, 30), At(22, 30), At(6, 30))

\* the end of an overnight window is outside it
C10_Witness ==
    /\ pure.op = "is_in_sleep_window"
    /\ parse_hhmm(pure.start) > parse_hhmm(pure.end)
    /\ TimeOfDay(pure.now) = parse_hhmm(pure.end)
    /\ ~pure.result

(* ================================ text ================================ *)

\* A str is the tuple of its characters; None is a value of its own.
None == << "None" >>

\* The characters of the model, one of each kind the text functions tell
\* apart: "a" and "s" lower-case letters, "A" an upper-case letter, "sz" the
\* sharp s U+00DF (case folds to "ss"), " " whitespace, "-" punctuation,
\* "jL" and "jV" the conjoining Hangul jamo U+1100 and U+1161 (word
\* characters that compose under NFKC to the syllable "jLV", U+AC00).
Chars == {"a", "A", "s", "sz", " ", "-", "jL", "jV", "jLV"}

\* bound: longest text drawn as an input
MaxTextLen == 3

Texts == UNION { [1..n -> Chars] : n \in 0..MaxTextLen }

\* ord(c), the order str comparison uses
Ord(c) ==
    CASE c = " " -> 32
      [] c = "-" -> 45
      [] c = "A" -> 65
      [] c = "a" -> 97
      [] c = "s" -> 115
      [] c = "sz" -> 223
      [] c = "jL" -> 4352
      [] c = "jV" -> 4449
      [] c = "jLV" -> 44032

\* s < t on str
RECURSIVE str_less(_, _)
str_less(s, t) ==
    IF t = <<>> THEN FALSE
    ELSE IF s = <<>> THEN TRUE
    ELSE IF Ord(Head(s)) # Ord(Head(t)) THEN Ord(Head(s)) < Ord(Head(t))
    ELSE str_less(Tail(s), Tail(t))

isspace(c) == c = " "

RECURSIVE lstrip(_)
lstrip(s) ==
    IF s # <<>> /\ isspace(Head(s)) THEN lstrip(Tail(s)) ELSE s

RECURSIVE rstrip(_)
rstrip(s) ==
    IF s # <<>> /\ isspace(s[Len(s)])
    THEN rstrip(SubSeq(s, 1, Len(s) - 1)) ELSE s

\* str.strip()
strip(s) == rstrip(lstrip(s))

lower_char(c) == IF c = "A" THEN "a" ELSE c

\* str.lower()
RECURSIVE lower(_)
lower(s) ==
    IF s = <<>> THEN <<>> ELSE <<lower_char(Head(s))>> \o lower(Tail(s))

\* " ".join(s.split()) of a stripped s: every run of whitespace becomes one
\* space
RECURSIVE join_split(_)
join_split(s) ==
    IF Len(s) < 2 THEN s
    ELSE IF isspace(s[1]) /\ isspace(s[2]) THEN join_split(Tail(s))
    ELSE <<IF isspace(s[1]) THEN " " ELSE s[1]>> \o join_split(Tail(s))

\* _normalize_text
normalize_text(value) ==
    IF value = None \/ value = <<>> THEN <<>>
    ELSE join_split(lower(strip(value)))

\* unicodedata.normalize("NFKC", s): none of Chars decomposes to anything but
\* itself except "jLV", whose decomposition "jL" "jV" composes back; an
\* adjacent "jL" "jV" composes to "jLV"
RECURSIVE nfkc(_)
nfkc(s) ==
    IF Len(s) < 2 THEN s
    ELSE IF s[1] = "jL" /\ s[2] = "jV"
         THEN <<"jLV">> \o nfkc(SubSeq(s, 3, Len(s)))
    ELSE <<s[1]>> \o nfkc(Tail(s))

casefold_char(c) == IF c = "sz" THEN <<"s", "s">> ELSE <<lower_char(c)>>

\* str.casefold()
RECURSIVE casefold(_)
casefold(s) ==
    IF s = <<>> THEN <<>> ELSE casefold_char(Head(s)) \o casefold(Tail(s))

\* \w under re.UNICODE
is_word(c) == c \notin {" ", "-"}

\* re.sub(r"[^\w]", "", s, flags=re.UNICODE)
sub_non_word(s) == SelectSeq(s, is_word)

\* _fingerprint_text
fingerprint_text(value) ==
    sub_non_word(casefold(nfkc(normalize_text(value))))

\* ---- the text functions applied to every bounded text ----

InitFingerprint ==
    /\ cfg \in { c \in SleepConfigs : ~c.enabled }
    /\ clock = 0
    /\ file = FileAbsent
    /\ display = NoDisplay
    /\ run = [p \in Procs |-> Idle]
    /\ hist = Hist0
    /\ pure \in [op : {"args"}, x : Texts \cup {None}, once : {<<>>},
                 twice : {<<>>}]

ApplyFingerprint ==
    /\ pure.op = "args"
    /\ pure' = [pure EXCEPT
           !.op = "fingerprint_text",
           !.once = fingerprint_text(pure.x),
           !.twice = fingerprint_text(fingerprint_text(pure.x))]
    /\ UNCHANGED <<cfg, clock, file, display, run, hist>>

NextFingerprint == ApplyFingerprint

SpecFingerprint == InitFingerprint /\ [][NextFingerprint]_vars

(* =============================== events =============================== *)

\* None of an Optional[int]; the integer n is held as <<n>>
NoneInt == <<>>

\* models.Event: a datetime is its instant in minutes (both providers convert
\* to the configured zone, so isoformat() is one-to-one on instants)
Event(source, title, start, end, all_day, location, travel_time_text) ==
    [source |-> source, title |-> title, start |-> start, end |-> end,
     all_day |-> all_day, location |-> location,
     travel_time_text |-> travel_time_text,
     weather_icon |-> None, weather_text |-> None,
     weather_temperature_f |-> NoneInt,
     weather_end_icon |-> None, weather_end_text |-> None,
     weather_end_temperature_f |-> NoneInt]

\* the length of a str
len(s) == Len(s)

\* tuple comparison a > b of two (int, int) tuples
tuple_greater(a, b) == a[1] > b[1] \/ (a[1] = b[1] /\ a[2] > b[2])

\* _event_quality_score
event_quality_score(event) ==
    << IF fingerprint_text(event.location) # <<>> THEN 1 ELSE 0,
       len(strip(event.title)) >>

\* _event_sort_key
event_sort_key(e) ==
    << IF e.all_day THEN 0 ELSE 1, e.start, lower(e.title) >>

\* k1 < k2 on sort keys
sort_key_less(k1, k2) ==
    \/ k1[1] < k2[1]
    \/ k1[1] = k2[1] /\ k1[2] < k2[2]
    \/ k1[1] = k2[1] /\ k1[2] = k2[2] /\ str_less(k1[3], k2[3])

\* sorted(events, key=_event_sort_key): a stable sort
RECURSIVE insert_by_key(_, _)
insert_by_key(e, s) ==
    IF s = <<>> THEN <<e>>
    ELSE IF sort_key_less(event_sort_key(e), event_sort_key(Head(s)))
         THEN <<e>> \o s
    ELSE <<Head(s)>> \o insert_by_key(e, Tail(s))

RECURSIVE sorted_events(_)
sorted_events(s) ==
    IF s = <<>> THEN <<>>
    ELSE insert_by_key(s[Len(s)], sorted_events(SubSeq(s, 1, Len(s) - 1)))

\* a base key on the exact title
BaseKeyExactTitle(e) == << e.title, e.start, e.end, e.all_day >>

\* base_key of _dedupe_events
base_key(e) ==
    << fingerprint_text(e.title), e.start, e.end, e.all_day >>

\* a test that takes any two events of one base key for duplicates
IsDuplicateAnyLocation(e, existing) == TRUE

\* the test of the inner loop of _dedupe_events
is_duplicate_of(e, existing) ==
    LET location_fingerprint == fingerprint_text(e.location)
        existing_location_fingerprint == fingerprint_text(existing.location)
    IN  \/ location_fingerprint = existing_location_fingerprint
        \/ location_fingerprint = <<>>
        \/ existing_location_fingerprint = <<>>

\* the first index registered under the base key of e whose representative e
\* duplicates; 0 when there is none
duplicate_index(d, e) ==
    LET hits == { idx \in 1..Len(d.deduped) :
                    /\ d.seen[idx] = base_key(e)
                    /\ is_duplicate_of(e, d.deduped[idx]) }
    IN  IF hits = {} THEN 0
        ELSE CHOOSE idx \in hits : \A j \in hits : idx <= j

\* a loop in which the incoming duplicate always replaces the representative
DedupeStepAlwaysReplaces(d, e) ==
    LET idx == duplicate_index(d, e) IN
    IF idx # 0
    THEN [d EXCEPT
            !.deduped[idx] = e,
            !.cluster[idx] = @ \cup {e}]
    ELSE [deduped |-> Append(d.deduped, e),
          seen |-> Append(d.seen, base_key(e)),
          cluster |-> Append(d.cluster, {e})]

\* a duplicate test on the base key alone
DedupeStepIgnoresLocation(d, e) ==
    LET hits == { idx \in 1..Len(d.deduped) : d.seen[idx] = base_key(e) }
        idx == IF hits = {} THEN 0
               ELSE CHOOSE i \in hits : \A j \in hits : i <= j
    IN
    IF idx # 0
    THEN [d EXCEPT
            !.deduped[idx] =
                IF tuple_greater(event_quality_score(e),
                                 event_quality_score(@))
                THEN e ELSE @,
            !.cluster[idx] = @ \cup {e}]
    ELSE [deduped |-> Append(d.deduped, e),
          seen |-> Append(d.seen, base_key(e)),
          cluster |-> Append(d.cluster, {e})]

\* one iteration of the loop of _dedupe_events; seen[idx] is the base key
\* under which index idx is listed in seen_by_base_key, and cluster[idx]
\* records the events that the loop merged into index idx
dedupe_step(d, e) ==
    LET idx == duplicate_index(d, e) IN
    IF idx # 0
    THEN [d EXCEPT
            !.deduped[idx] =
                IF tuple_greater(event_quality_score(e),
                                 event_quality_score(@))
                THEN e ELSE @,
            !.cluster[idx] = @ \cup {e}]
    ELSE [deduped |-> Append(d.deduped, e),
          seen |-> Append(d.seen, base_key(e)),
          cluster |-> Append(d.cluster, {e})]

RECURSIVE dedupe_loop(_, _)
dedupe_loop(d, s) ==
    IF s = <<>> THEN d ELSE dedupe_loop(dedupe_step(d, Head(s)), Tail(s))

\* the loop of _dedupe_events run on the sorted input
dedupe_run(events) ==
    dedupe_loop([deduped |-> <<>>, seen |-> <<>>, cluster |-> <<>>],
                sorted_events(events))

\* _dedupe_events
dedupe_events(events) == dedupe_run(events).deduped

(* ========================= merge, travel, weather ===================== *)

\* truth value of an Optional[str]
truthy(value) == value # None /\ value # <<>>

is_all_day(e) == e.all_day
is_timed(e) == ~e.all_day

\* sorted_titles.sort(key=str.lower): a stable sort
RECURSIVE insert_title(_, _)
insert_title(t, s) ==
    IF s = <<>> THEN <<t>>
    ELSE IF str_less(lower(t), lower(Head(s))) THEN <<t>> \o s
    ELSE <<Head(s)>> \o insert_title(t, Tail(s))

RECURSIVE sorted_titles_of(_)
sorted_titles_of(s) ==
    IF s = <<>> THEN <<>>
    ELSE insert_title(s[Len(s)], sorted_titles_of(SubSeq(s, 1, Len(s) - 1)))

\* [e.title.strip() for e in all_day_events if e.title.strip()]
RECURSIVE stripped_titles(_)
stripped_titles(s) ==
    IF s = <<>> THEN <<>>
    ELSE (IF strip(Head(s).title) # <<>> THEN <<strip(Head(s).title)>>
          ELSE <<>>) \o stripped_titles(Tail(s))

\* " • ".join(titles)
RECURSIVE join_bullet(_)
join_bullet(titles) ==
    IF titles = <<>> THEN <<>>
    ELSE IF Len(titles) = 1 THEN titles[1]
    ELSE titles[1] \o <<" ", "bullet", " ">> \o join_bullet(Tail(titles))

\* summary_title of _merge_all_day_events
summary_title(all_day_events) ==
    LET sorted_titles == sorted_titles_of(stripped_titles(all_day_events)) IN
    IF sorted_titles # <<>>
    THEN <<"A", "l", "l", "-", "d", "a", "y", ":", " ">>
             \o join_bullet(sorted_titles)
    ELSE <<"A", "l", "l", "-", "d", "a", "y", " ",
           "e", "v", "e", "n", "t", "s">>

min_start(s) == CHOOSE m \in { s[i].start : i \in 1..Len(s) } :
                    \A i \in 1..Len(s) : m <= s[i].start
max_end(s) == CHOOSE m \in { s[i].end : i \in 1..Len(s) } :
                  \A i \in 1..Len(s) : m >= s[i].end

\* a merge that takes the summary's span from the first all-day event
MergeSpanOfFirst(events) ==
    LET all_day_events == SelectSeq(events, is_all_day)
        timed_events == SelectSeq(events, is_timed)
    IN  IF all_day_events = <<>> THEN sorted_events(timed_events)
        ELSE << Event("merged", summary_title(all_day_events),
                      all_day_events[1].start, all_day_events[1].end,
                      TRUE, None, None) >>
             \o sorted_events(timed_events)

\* _merge_all_day_events
merge_all_day_events(events) ==
    LET all_day_events == SelectSeq(events, is_all_day)
        timed_events == SelectSeq(events, is_timed)
    IN  IF all_day_events = <<>> THEN sorted_events(timed_events)
        ELSE << Event("merged", summary_title(all_day_events),
                      min_start(all_day_events), max_end(all_day_events),
                      TRUE, None, None) >>
             \o sorted_events(timed_events)

\* str(n) of a natural number
RECURSIVE str_of_int(_)
str_of_int(n) ==
    LET digit == <<"0", "1", "2", "3", "4", "5", "6", "7", "8", "9">>
    IN  IF n < 10 THEN <<digit[n + 1]>>
        ELSE str_of_int(n \div 10) \o <<digit[(n % 10) + 1]>>

\* the normalized addresses of the model
Addresses == { <<"a">>, <<"s">>, <<"a", "s">> }

\* what the geocoding and routing services answer: the set of addresses they
\* can resolve; a route is found between two resolvable addresses
Routes == SUBSET Addresses

\* the duration the routing service reports when it finds a route
RouteMinutes == 7

\* TravelTimeResolver.estimate: the text of the estimate, or None
resolver_estimate(routes, origin, destination) ==
    LET origin_norm == join_split(lower(strip(origin)))
        destination_norm == join_split(lower(strip(destination)))
    IN  IF origin_norm = <<>> \/ destination_norm = <<>> THEN None
        ELSE IF origin_norm = destination_norm
             THEN <<"0", " ", "m", "i", "n">>
        ELSE IF origin_norm \in routes /\ destination_norm \in routes
             THEN str_of_int(RouteMinutes) \o <<" ", "m", "i", "n">>
        ELSE None

\* a loop that chains the origin only for gaps below the window
TravelStepStrictGap(t, event, origin_address, window, routes) ==
    IF event.all_day
    THEN [t EXCEPT !.processed = Append(@, event),
                   !.origins = Append(@, None)]
    ELSE
    LET origin ==
            IF /\ t.previous # <<>>
               /\ event.start - t.previous[1].end < window
               /\ truthy(t.previous[1].location)
            THEN t.previous[1].location ELSE origin_address
        estimate ==
            IF truthy(event.location)
            THEN resolver_estimate(routes, origin, event.location) ELSE None
        travel_text ==
            IF estimate # None
            THEN <<"T", "r", "a", "v", "e", "l", ":", " ">> \o estimate
            ELSE None
    IN  [processed |-> Append(t.processed,
                              Event(event.source, event.title, event.start,
                                    event.end, event.all_day, event.location,
                                    travel_text)),
         previous |-> <<event>>,
         origins |-> Append(t.origins,
                            IF truthy(event.location) THEN origin ELSE None)]

\* a loop that keeps the travel text the event came with when its lookup
\* gives nothing
TravelStepKeepsOldText(t, event, origin_address, window, routes) ==
    IF event.all_day
    THEN [t EXCEPT !.processed = Append(@, event),
                   !.origins = Append(@, None)]
    ELSE
    LET origin ==
            IF /\ t.previous # <<>>
               /\ event.start - t.previous[1].end <= window
               /\ truthy(t.previous[1].location)
            THEN t.previous[1].location ELSE origin_address
        estimate ==
            IF truthy(event.location)
            THEN resolver_estimate(routes, origin, event.location) ELSE None
        travel_text ==
            IF estimate # None
            THEN <<"T", "r", "a", "v", "e", "l", ":", " ">> \o estimate
            ELSE event.travel_time_text
    IN  [processed |-> Append(t.processed,
                              Event(event.source, event.title, event.start,
                                    event.end, event.all_day, event.location,
                                    travel_text)),
         previous |-> <<event>>,
         origins |-> Append(t.origins,
                            IF truthy(event.location) THEN origin ELSE None)]

\* one iteration of the loop of _apply_travel_times; t.previous holds
\* previous_timed_event (<<>> while it is None), and t.origins records, for
\* each event, the origin passed to resolver.estimate (None when estimate
\* is not called for it)
travel_step(t, event, origin_address, window, routes) ==
    IF event.all_day
    THEN [t EXCEPT !.processed = Append(@, event),
                   !.origins = Append(@, None)]
    ELSE
    LET origin ==
            IF /\ t.previous # <<>>
               /\ event.start - t.previous[1].end <= window
               /\ truthy(t.previous[1].location)
            THEN t.previous[1].location ELSE origin_address
        estimate ==
            IF truthy(event.location)
            THEN resolver_estimate(routes, origin, event.location) ELSE None
        travel_text ==
            IF estimate # None
            THEN <<"T", "r", "a", "v", "e", "l", ":", " ">> \o estimate
            ELSE None
    IN  [processed |-> Append(t.processed,
                              Event(event.source, event.title, event.start,
                                    event.end, event.all_day, event.location,
                                    travel_text)),
         previous |-> <<event>>,
         origins |-> Append(t.origins,
                            IF truthy(event.location) THEN origin ELSE None)]

RECURSIVE travel_loop(_, _, _, _, _)
travel_loop(t, s, origin_address, window, routes) ==
    IF s = <<>> THEN t
    ELSE travel_loop(travel_step(t, Head(s), origin_address, window, routes),
                     Tail(s), origin_address, window, routes)

\* _apply_travel_times with the origins it passed to the resolver; with no
\* origin address the events are returned as they are and no resolver exists
travel_run(events, origin_address, window, routes) ==
    IF ~truthy(origin_address)
    THEN [processed |-> events, previous |-> <<>>,
          origins |-> [i \in 1..Len(events) |-> None]]
    ELSE travel_loop([processed |-> <<>>, previous |-> <<>>, origins |-> <<>>],
                     events, origin_address, window, routes)

\* _apply_travel_times
apply_travel_times(events, origin_address, window, routes) ==
    travel_run(events, origin_address, window, routes).processed

\* what a forecast lookup does: raise, find nothing, or return a forecast
Lookups == {"raises", "none", "forecast"}

\* the forecast a successful lookup returns
Forecast == [icon |-> <<"s", "u", "n">>, temperature_f |-> 72]

\* events longer than this get an end-of-event forecast
LongEventMinutes == 60

\* an end lookup from 60 minutes on
EndLookupFromSixty(event, include_end) ==
    include_end /\ event.end - event.start >= LongEventMinutes

\* line 200: whether the forecast at the end of a timed event is looked up
end_lookup_made(event, include_end) ==
    include_end /\ event.end - event.start > LongEventMinutes

\* the body of the loop of _apply_weather_forecast for a timed event; a
\* lookup that raises is caught and counts as no forecast (weather and
\* end_weather hold the forecast, <<>> while it is None)
weather_of(event, include_end, start_lookup, end_lookup) ==
    LET weather == IF start_lookup = "forecast" THEN <<Forecast>> ELSE <<>>
        end_weather ==
            IF end_lookup_made(event, include_end) /\ end_lookup = "forecast"
            THEN <<Forecast>> ELSE <<>>
    IN  [Event(event.source, event.title, event.start, event.end,
               event.all_day, event.location, event.travel_time_text)
         EXCEPT
           !.weather_icon =
               IF weather # <<>> THEN weather[1].icon ELSE None,
           !.weather_text =
               IF weather # <<>>
               THEN str_of_int(weather[1].temperature_f) \o <<"deg", "F">>
               ELSE None,
           !.weather_temperature_f =
               IF weather # <<>> THEN <<weather[1].temperature_f>>
               ELSE NoneInt,
           !.weather_end_icon =
               IF end_weather # <<>> THEN end_weather[1].icon ELSE None,
           !.weather_end_text =
               IF end_weather # <<>>
               THEN str_of_int(end_weather[1].temperature_f)
                        \o <<"deg", "F">>
               ELSE None,
           !.weather_end_temperature_f =
               IF end_weather # <<>> THEN <<end_weather[1].temperature_f>>
               ELSE NoneInt]

\* a weather pass that annotates all-day events too
ApplyWeatherToAllDay(events, include_end, start_lookups, end_lookups) ==
    [i \in 1..Len(events) |->
        weather_of(events[i], include_end, start_lookups[i], end_lookups[i])]

\* _apply_weather_forecast; start_lookups[i] and end_lookups[i] are what the
\* lookups for the i-th event do (every lookup is a request of its own)
apply_weather_forecast(events, include_end, start_lookups, end_lookups) ==
    [i \in 1..Len(events) |->
        IF events[i].all_day THEN events[i]
        ELSE weather_of(events[i], include_end, start_lookups[i],
                        end_lookups[i])]

\* the instants _apply_weather_forecast asks the resolver about for the
\* i-th event
weather_lookups_of(events, include_end, i) ==
    IF events[i].all_day THEN <<>>
    ELSE <<events[i].start>>
         \o (IF end_lookup_made(events[i], include_end)
             THEN <<events[i].end>> ELSE <<>>)

\* _process_events
process_events(events, travel_enabled, origin_address, window, routes) ==
    LET deduped == dedupe_events(events)
        merged == merge_all_day_events(deduped)
    IN  IF travel_enabled
        THEN apply_travel_times(merged, origin_address, window, routes)
        ELSE merged

(* ====================== _fetch_events_for_range ======================= *)

\* back_to_back_window_minutes of the travel configuration
BackToBackWindow == 30

\* what a provider's fetch does: raise, or return its events
GoogleFeeds ==
    { [raises |-> TRUE, events |-> <<>>],
      [raises |-> FALSE, events |-> <<>>],
      [raises |-> FALSE,
       events |-> << Event("google", <<"a", "s">>, 540, 600, FALSE,
                           <<"s">>, None) >>] }

ICloudFeeds ==
    { [raises |-> TRUE, events |-> <<>>],
      [raises |-> FALSE, events |-> <<>>],
      [raises |-> FALSE,
       events |-> << Event("icloud", <<"A", "-", "s">>, 540, 600, FALSE,
                           None, None) >>] }

\* the arguments and environment of one call: which providers are enabled,
\* whether their credentials are in the environment, what their fetch does
InitFetch ==
    /\ cfg \in { c \in SleepConfigs : ~c.enabled }
    /\ clock = 0
    /\ file = FileAbsent
    /\ display = NoDisplay
    /\ run = [p \in Procs |-> Idle]
    /\ hist = Hist0
    /\ pure \in [pc : {"google"},
                 google_enabled : BOOLEAN, google_env : BOOLEAN,
                 icloud_enabled : BOOLEAN, icloud_env : BOOLEAN,
                 google : GoogleFeeds, icloud : ICloudFeeds,
                 travel_enabled : BOOLEAN,
                 events : {<<>>}, printed : {{}}, result : {<<>>}]

\* lines 240-244: the Google fetch, outside any try block
FetchGoogle ==
    /\ pure.pc = "google"
    /\ pure' =
         IF pure.google_enabled /\ pure.google_env
         THEN IF pure.google.raises
              THEN [pure EXCEPT !.pc = "raised"]
              ELSE [pure EXCEPT !.pc = "icloud",
                                !.events = @ \o pure.google.events]
         ELSE [pure EXCEPT !.pc = "icloud"]
    /\ UNCHANGED <<cfg, clock, file, display, run, hist>>

\* lines 246-255: the iCloud fetch, inside try/except Exception
FetchICloud ==
    /\ pure.pc = "icloud"
    /\ pure' =
         IF pure.icloud_enabled
         THEN IF pure.icloud_env
              THEN IF pure.icloud.raises
                   THEN [pure EXCEPT
                           !.pc = "process",
                           !.printed = @ \cup {"iCloud fetch failed"}]
                   ELSE [pure EXCEPT !.pc = "process",
                                     !.events = @ \o pure.icloud.events]
              ELSE [pure EXCEPT
                      !.pc = "process",
                      !.printed = @ \cup {"skipping iCloud"}]
         ELSE [pure EXCEPT !.pc = "process"]
    /\ UNCHANGED <<cfg, clock, file, display, run, hist>>

\* lines 257-262
ProcessAndReturn ==
    /\ pure.pc = "process"
    /\ pure' = [pure EXCEPT
           !.pc = "returned",
           !.result = process_events(pure.events, pure.travel_enabled,
                                     <<"a">>, BackToBackWindow, Addresses)]
    /\ UNCHANGED <<cfg, clock, file, display, run, hist>>

NextFetch == FetchGoogle \/ FetchICloud \/ ProcessAndReturn

SpecFetch == InitFetch /\ [][NextFetch]_vars

\* the fetch of a provider was attempted and raised
GoogleFailed ==
    pure.google_enabled /\ pure.google_env /\ pure.google.raises
ICloudFailed ==
    pure.icloud_enabled /\ pure.icloud_env /\ pure.icloud.raises

\* the events of the sources that were fetched without failure
RemainingEvents ==
    (IF pure.google_enabled /\ pure.google_env /\ ~pure.google.raises
     THEN pure.google.events ELSE <<>>)
    \o (IF pure.icloud_enabled /\ pure.icloud_env /\ ~pure.icloud.raises
        THEN pure.icloud.events ELSE <<>>)

(* ================== _dedupe_events on bounded inputs =================== *)

\* bound: longest event list drawn as an input
MaxEvents == 3

\* the two providers; titles with one fingerprint ("as", " A-s": a variant in
\* case, whitespace and punctuation) and a title with another, which sorts
\* between the two; no location, a location of punctuation only and two
\* locations; a timed and an all-day span
DedupeEvents ==
    { Event(source, title, span[1], span[2], span[3], location, None) :
        source \in {"google", "icloud"},
        title \in { <<"a", "s">>, <<" ", "A", "-", "s">>, <<"a">> },
        span \in { <<540, 600, FALSE>>, <<0, DayMinutes, TRUE>> },
        location \in { None, <<"-">>, <<"a">>, <<"s">> } }

EventLists(universe, n) == UNION { [1..k -> universe] : k \in 0..n }

Reverse(s) == [i \in 1..Len(s) |-> s[Len(s) + 1 - i]]

\* the events of a list, as a set
Range(s) == { s[i] : i \in 1..Len(s) }

InitDedupe ==
    /\ cfg \in { c \in SleepConfigs : ~c.enabled }
    /\ clock = 0
    /\ file = FileAbsent
    /\ display = NoDisplay
    /\ run = [p \in Procs |-> Idle]
    /\ hist = Hist0
    /\ pure \in [op : {"args"}, events : EventLists(DedupeEvents, MaxEvents),
                 deduped : {<<>>}, cluster : {<<>>}, reversed : {<<>>}]

\* _dedupe_events(events) and _dedupe_events(the same events in reverse)
ApplyDedupe ==
    /\ pure.op = "args"
    /\ pure' = [pure EXCEPT
           !.op = "dedupe_events",
           !.deduped = dedupe_run(pure.events).deduped,
           !.cluster = dedupe_run(pure.events).cluster,
           !.reversed = dedupe_events(Reverse(pure.events))]
    /\ UNCHANGED <<cfg, clock, file, display, run, hist>>

NextDedupe == ApplyDedupe

SpecDedupe == InitDedupe /\ [][NextDedupe]_vars

\* a and b are candidate duplicates
Candidates(a, b) == base_key(a) = base_key(b) /\ is_duplicate_of(a, b)

\* a and b share the base key and have different, non-empty location
\* fingerprints
ConflictingLocations(a, b) ==
    /\ base_key(a) = base_key(b)
    /\ fingerprint_text(a.location) # <<>>
    /\ fingerprint_text(b.location) # <<>>
    /\ fingerprint_text(a.location) # fingerprint_text(b.location)

(* ============== _merge_all_day_events on bounded inputs ================ *)

\* titles that sort differently and a blank title; two all-day spans and two
\* timed spans
MergeEvents ==
    { Event("google", title, span[1], span[2], span[3], None, None) :
        title \in { <<"a">>, <<"A", "s">>, <<" ">> },
        span \in { <<0, DayMinutes, TRUE>>,
                   <<DayMinutes, 2 * DayMinutes, TRUE>>,
                   <<540, 600, FALSE>>, <<600, 690, FALSE>> } }

InitMerge ==
    /\ cfg \in { c \in SleepConfigs : ~c.enabled }
    /\ clock = 0
    /\ file = FileAbsent
    /\ display = NoDisplay
    /\ run = [p \in Procs |-> Idle]
    /\ hist = Hist0
    /\ pure \in [op : {"args"}, events : EventLists(MergeEvents, MaxEvents),
                 result : {<<>>}]

ApplyMerge ==
    /\ pure.op = "args"
    /\ pure' = [pure EXCEPT
           !.op = "merge_all_day_events",
           !.result = merge_all_day_events(pure.events)]
    /\ UNCHANGED <<cfg, clock, file, display, run, hist>>

NextMerge == ApplyMerge

SpecMerge == InitMerge /\ [][NextMerge]_vars

\* how often e occurs in the list s
Count(e, s) == Cardinality({ i \in 1..Len(s) : s[i] = e })

\* s holds exactly the timed events of the list events
TimedEventsOf(s, events) ==
    \A e \in Range(s) \cup Range(events) :
        Count(e, s) = IF e.all_day THEN 0 ELSE Count(e, events)

\* s is in the order of (start, lower-cased title)
SortedByStartTitle(s) ==
    \A i, j \in 1..Len(s) :
        i < j =>
            \/ s[i].start < s[j].start
            \/ /\ s[i].start = s[j].start
               /\ ~str_less(lower(s[j].title), lower(s[i].title))

(* ================= _events_signature on bounded inputs ================= *)

\* value or ""
or_empty(value) == IF truthy(value) THEN value ELSE <<>>

\* a payload that also holds the start forecast
EventPayloadWithWeather(e) ==
    [source |-> e.source, title |-> e.title,
     start |-> isoformat(e.start), end |-> isoformat(e.end),
     all_day |-> e.all_day, location |-> or_empty(e.location),
     travel_time_text |-> or_empty(e.travel_time_text),
     weather_text |-> e.weather_text,
     weather_end_text |-> e.weather_end_text]

\* a payload without the travel text
EventPayloadWithoutTravel(e) ==
    [source |-> e.source, title |-> e.title,
     start |-> isoformat(e.start), end |-> isoformat(e.end),
     all_day |-> e.all_day, location |-> or_empty(e.location)]

\* _event_payload of _events_signature
event_payload(e) ==
    [source |-> e.source, title |-> e.title,
     start |-> isoformat(e.start), end |-> isoformat(e.end),
     all_day |-> e.all_day, location |-> or_empty(e.location),
     travel_time_text |-> or_empty(e.travel_time_text)]

RECURSIVE event_payloads(_)
event_payloads(s) ==
    IF s = <<>> THEN <<>>
    ELSE <<event_payload(Head(s))>> \o event_payloads(Tail(s))

\* ups_status.get(key, default); d.keys are the keys the dict holds
ups_get(d, key, default) == IF key \in d.keys THEN d[key] ELSE default

\* ups_payload of _events_signature
ups_payload(ups_status) ==
    [present |-> ups_get(ups_status, "present", FALSE),
     status |-> ups_get(ups_status, "status", <<>>),
     capacity |-> ups_get(ups_status, "capacity", NoneInt),
     online |-> ups_get(ups_status, "online", NoneInt)]

\* the part of the payload beside header_date and sleep_banner
signature_content(events, tomorrow_events, alerts, wifi_status, ups_status) ==
    [wifi_status |-> wifi_status,
     ups_status |-> ups_payload(ups_status),
     events |-> event_payloads(events),
     tomorrow_events |-> event_payloads(tomorrow_events),
     weather_alerts |-> alerts]

\* _events_signature of its full argument list (today's and tomorrow's
\* events, weather_alerts' headlines, header_date, sleep_banner, wifi_status,
\* ups_status)
events_signature_of(events, tomorrow, alerts, header, banner, wifi, ups) ==
    events_signature(signature_content(events, tomorrow, alerts, wifi, ups),
                     header, banner)

\* bounds: longest today and tomorrow lists drawn as inputs
MaxSignatureEvents == 2
MaxTomorrowEvents == 1

\* the events of the two lists: one with no annotation at all, and one with
\* location, travel text and both forecasts
SignatureEvents ==
    { Event("google", <<"a", "s">>, 540, 600, FALSE, None, None),
      weather_of(Event("icloud", <<"s">>, 600, 690, FALSE, <<"a">>,
                       <<"T", "r", "a", "v", "e", "l", ":", " ", "7", " ",
                         "m", "i", "n">>),
                 TRUE, "forecast", "forecast") }

\* an empty dict and a full one
UpsStatuses ==
    { [keys |-> {}, present |-> FALSE, status |-> <<>>,
       capacity |-> NoneInt, online |-> NoneInt],
      [keys |-> {"present", "status", "capacity", "online"},
       present |-> TRUE, status |-> <<"o", "k">>,
       capacity |-> <<95>>, online |-> <<TRUE>>] }

WeatherFields ==
    {"weather_icon", "weather_text", "weather_temperature_f",
     "weather_end_icon", "weather_end_text", "weather_end_temperature_f"}

RenderedFields ==
    {"title", "start", "end", "all_day", "location", "travel_time_text"}

\* the values a field is changed to
ValuesOf(field) ==
    CASE field = "title" -> { <<"a", "s">>, <<"s">>, <<" ", "A", "-", "s">> }
      [] field = "start" -> {540, 570, 600}
      [] field = "end" -> {600, 690, 720}
      [] field = "all_day" -> BOOLEAN
      [] field \in {"location", "travel_time_text"} ->
             { None, <<>>, <<"a">>, <<"s">> }
      [] field \in {"weather_icon", "weather_end_icon"} ->
             { None, Forecast.icon }
      [] field \in {"weather_text", "weather_end_text"} ->
             { None, str_of_int(Forecast.temperature_f) \o <<"deg", "F">> }
      [] field \in {"weather_temperature_f", "weather_end_temperature_f"} ->
             { NoneInt, <<Forecast.temperature_f>> }

InitSignature ==
    /\ cfg \in { c \in SleepConfigs : ~c.enabled }
    /\ clock = 0
    /\ file = FileAbsent
    /\ display = NoDisplay
    /\ run = [p \in Procs |-> Idle]
    /\ hist = Hist0
    /\ pure \in [op : {"args"},
                 events : EventLists(SignatureEvents, MaxSignatureEvents),
                 tomorrow_events : EventLists(SignatureEvents, MaxTomorrowEvents),
                 weather_alerts : { <<>>, << <<"h", "e", "a", "t">> >> },
                 header_date : { header_date_of(0) },
                 sleep_banner : BOOLEAN,
                 wifi_status : { <<"c", "o", "n", "n", "e", "c", "t", "e", "d">> },
                 ups_status : UpsStatuses,
                 list : {"none"}, index : {0}, field : {"none"},
                 new_events : {<<>>}, new_tomorrow_events : {<<>>},
                 hash : {<<>>}, new_hash : {<<>>}]

\* two calls of _events_signature: the second with one field of one event of
\* one of the two lists set to value, all else as in the first
ApplySignature(list, index, field, value) ==
    /\ pure.op = "args"
    /\ index \in 1..Len(pure[list])
    /\ LET new_events ==
               IF list = "events"
               THEN [pure.events EXCEPT ![index][field] = value]
               ELSE pure.events
           new_tomorrow_events ==
               IF list = "tomorrow_events"
               THEN [pure.tomorrow_events EXCEPT ![index][field] = value]
               ELSE pure.tomorrow_events
       IN  pure' = [pure EXCEPT
               !.op = "events_signature",
               !.list = list, !.index = index, !.field = field,
               !.new_events = new_events,
               !.new_tomorrow_events = new_tomorrow_events,
               !.hash = events_signature_of(
                            pure.events, pure.tomorrow_events,
                            pure.weather_alerts, pure.header_date,
                            pure.sleep_banner, pure.wifi_status,
                            pure.ups_status),
               !.new_hash = events_signature_of(
                            new_events, new_tomorrow_events,
                            pure.weather_alerts, pure.header_date,
                            pure.sleep_banner, pure.wifi_status,
                            pure.ups_status)]
    /\ UNCHANGED <<cfg, clock, file, display, run, hist>>

NextSignature ==
    \E list \in {"events", "tomorrow_events"}, index \in 1..MaxSignatureEvents,
       field \in RenderedFields \cup WeatherFields :
        \E value \in ValuesOf(field) :
            ApplySignature(list, index, field, value)

SpecSignature == InitSignature /\ [][NextSignature]_vars

\* the event that the second call changed, before and after
OldEvent == pure[pure.list][pure.index]
NewEvent ==
    IF pure.list = "events" THEN pure.new_events[pure.index]
    ELSE pure.new_tomorrow_events[pure.index]

(* ====== _process_events then _apply_weather_forecast, bounded inputs ==== *)

\* an all-day event that already carries travel text and forecasts, a bare
\* all-day event, and timed events: a short one, one longer than
\* LongEventMinutes, and one without location
PipelineEvents ==
    { weather_of(Event("google", <<"a">>, 0, DayMinutes, TRUE, <<"a">>,
                       <<"T", "r", "a", "v", "e", "l", ":", " ", "7", " ",
                         "m", "i", "n">>),
                 TRUE, "forecast", "forecast"),
      Event("icloud", <<"s">>, 0, DayMinutes, TRUE, None, None),
      Event("google", <<"a", "s">>, 540, 600, FALSE, <<"a">>, None),
      Event("google", <<"s">>, 600, 690, FALSE, <<"s">>, None),
      Event("icloud", <<"A">>, 720, 750, FALSE, None, None) }

InitPipeline ==
    /\ cfg \in { c \in SleepConfigs : ~c.enabled }
    /\ clock = 0
    /\ file = FileAbsent
    /\ display = NoDisplay
    /\ run = [p \in Procs |-> Idle]
    /\ hist = Hist0
    /\ pure \in [op : {"args"},
                 events : EventLists(PipelineEvents, MaxEvents),
                 travel_enabled : BOOLEAN,
                 origin_address : { <<>>, <<"a">> },
                 routes : { {}, Addresses },
                 include_end : BOOLEAN,
                 start_lookup : Lookups, end_lookup : Lookups,
                 result : {<<>>}]

\* _process_events (lines 257-262, 381-382) then _apply_weather_forecast
\* (run_once, lines 415-427)
ApplyPipeline ==
    /\ pure.op = "args"
    /\ pure' = [pure EXCEPT
           !.op = "pipeline",
           !.result = apply_weather_forecast(
                          process_events(pure.events, pure.travel_enabled,
                                         pure.origin_address,
                                         BackToBackWindow, pure.routes),
                          pure.include_end,
                          [i \in 1..MaxEvents |-> pure.start_lookup],
                          [i \in 1..MaxEvents |-> pure.end_lookup])]
    /\ UNCHANGED <<cfg, clock, file, display, run, hist>>

NextPipeline == ApplyPipeline

SpecPipeline == InitPipeline /\ [][NextPipeline]_vars

\* e carries no travel or weather annotation
Unannotated(e) ==
    /\ e.travel_time_text = None
    /\ e.weather_icon = None
    /\ e.weather_text = None
    /\ e.weather_temperature_f = NoneInt
    /\ e.weather_end_icon = None
    /\ e.weather_end_text = None
    /\ e.weather_end_temperature_f = NoneInt

(* ================== run_once invocations that may overlap ============== *)

\* two invocations of run_once, which nothing keeps from overlapping
OverlapProcs == {1, 2}

\* another invocation is under way
OthersRunning(p) == \E q \in OverlapProcs \ {p} : run[q].pc # "idle"

\* the instants at which the invocations of this specification run
OverlapClocks == {0, 120, 720}

InitOverlap ==
    /\ cfg \in SleepConfigs
    /\ clock \in OverlapClocks
    /\ file = FileAbsent
    /\ display = NoDisplay
    /\ run = [p \in OverlapProcs |-> Idle]
    /\ hist = [stay_banners |-> 0, day_banners |-> 0, forced |-> FALSE,
               overlapped |-> FALSE]
    /\ pure = PureNone

\* lines 351-375, started by a scheduler that does not wait for the other
\* invocation: run_once takes no lock; hist.overlapped records that an
\* invocation started while another was under way
BeginUnlocked(p, force, deep_clean) ==
    /\ run[p].pc = "idle"
    /\ LET now == clock
           state == load_state(file)
           in_sleep == in_sleep_of(cfg, now)
           should_apply ==
               should_apply_sleep_banner_of(cfg, in_sleep, state, today_str_of(now))
           started == [Idle EXCEPT !.force = force, !.deep_clean = deep_clean,
                                   !.now = now, !.file_at_start = file]
       IN  run' = [run EXCEPT ![p] =
               IF LoadRaises(file)
               THEN [started EXCEPT !.pc = "done", !.outcome = "load_failed"]
               ELSE IF sleep_suppressed(in_sleep, should_apply, force, deep_clean)
               THEN [started EXCEPT !.pc = "done", !.outcome = "suppressed",
                                    !.state = state, !.in_sleep = in_sleep,
                                    !.should_apply = should_apply]
               ELSE [started EXCEPT !.pc = "fetch",
                                    !.state = state, !.in_sleep = in_sleep,
                                    !.should_apply = should_apply]]
    /\ hist' = [hist EXCEPT !.forced = @ \/ force \/ deep_clean,
                            !.overlapped = @ \/ OthersRunning(p)]
    /\ UNCHANGED <<cfg, clock, file, display, pure>>

NextOverlap ==
    \/ \E p \in OverlapProcs, force \in BOOLEAN : BeginUnlocked(p, force, FALSE)
    \/ \E p \in OverlapProcs, content \in Contents : Fetch(p, content)
    \/ \E p \in OverlapProcs, hardware \in BOOLEAN : Show(p, hardware)
    \/ \E p \in OverlapProcs : SaveOpen(p)
    \/ \E p \in OverlapProcs : SaveWrite(p)
    \/ \E p \in OverlapProcs : Abort(p)
    \/ \E p \in OverlapProcs : Return(p)

SpecOverlap == InitOverlap /\ [][NextOverlap]_vars

\* the invocation is about to overwrite a state file that is no longer the
\* one it read
StaleSave(p) == run[p].pc = "save" /\ file # run[p].file_at_start


(* ====== _apply_travel_times and _apply_weather_forecast, bounded inputs == *)

\* timed events: one of exactly LongEventMinutes, a longer one that starts
\* BackToBackWindow after it and already carries travel text, a longer one
\* without location, and one that starts BackToBackWindow after that; and an
\* all-day event
EnrichEvents ==
    { Event("google", <<"a">>, 540, 600, FALSE, <<"a">>, None),
      Event("google", <<"s">>, 630, 720, FALSE, <<"s", " ">>,
            <<"T", "r", "a", "v", "e", "l", ":", " ", "9", " ", "m", "i",
              "n">>),
      Event("icloud", <<"A">>, 750, 811, FALSE, None, None),
      Event("icloud", <<"a", "s">>, 841, 870, FALSE, <<"a">>, None),
      Event("google", <<"s">>, 0, DayMinutes, TRUE, <<"s">>, None) }

\* the back-to-back windows tried: the configured one and one minute less
Windows == { BackToBackWindow - 1, BackToBackWindow }

InitEnrich ==
    /\ cfg \in { c \in SleepConfigs : ~c.enabled }
    /\ clock = 0
    /\ file = FileAbsent
    /\ display = NoDisplay
    /\ run = [p \in Procs |-> Idle]
    /\ hist = Hist0
    /\ pure \in [op : {"args"},
                 events : EventLists(EnrichEvents, MaxEvents),
                 origin_address : {<<>>}, window : {0}, routes : {{}},
                 include_end : {FALSE},
                 start_lookups : {<<>>}, end_lookups : {<<>>},
                 origins : {<<>>}, result : {<<>>}]

\* _apply_travel_times(events, origin_address, resolver, window)
ApplyTravel(origin_address, window, routes) ==
    /\ pure.op = "args"
    /\ LET t == travel_run(pure.events, origin_address, window, routes)
       IN  pure' = [pure EXCEPT
               !.op = "apply_travel_times",
               !.origin_address = origin_address,
               !.window = window,
               !.routes = routes,
               !.origins = t.origins,
               !.result = t.processed]
    /\ UNCHANGED <<cfg, clock, file, display, run, hist>>

\* _apply_weather_forecast(events, resolver, include_end_weather...)
ApplyWeather(include_end, start_lookups, end_lookups) ==
    /\ pure.op = "args"
    /\ pure' = [pure EXCEPT
           !.op = "apply_weather_forecast",
           !.include_end = include_end,
           !.start_lookups = start_lookups,
           !.end_lookups = end_lookups,
           !.result = apply_weather_forecast(pure.events, include_end,
                                             start_lookups, end_lookups)]
    /\ UNCHANGED <<cfg, clock, file, display, run, hist>>

NextEnrich ==
    \/ \E origin_address \in { <<>>, <<"A", "s">> }, window \in Windows :
           \E routes \in Routes : ApplyTravel(origin_address, window, routes)
    \/ \E include_end \in BOOLEAN :
           \E start_lookups \in [1..Len(pure.events) -> Lookups] :
               \E end_lookups \in [1..Len(pure.events) -> Lookups] :
                   ApplyWeather(include_end, start_lookups, end_lookups)

SpecEnrich == InitEnrich /\ [][NextEnrich]_vars

\* the indices of the timed events before position i
TimedBefore(events, i) == { j \in 1..(i - 1) : ~events[j].all_day }

\* the index of the last timed event before position i
PrecedingTimed(events, i) ==
    CHOOSE j \in TimedBefore(events, i) :
        \A k \in TimedBefore(events, i) : k <= j

\* source, title, start, end, all_day and location of e
CoreFields(e) ==
    <<e.source, e.title, e.start, e.end, e.all_day, e.location>>

\* e carries a start forecast
HasStartWeather(e) ==
    /\ e.weather_icon # None
    /\ e.weather_text # None
    /\ e.weather_temperature_f # NoneInt

\* e carries no start forecast
NoStartWeather(e) ==
    /\ e.weather_icon = None
    /\ e.weather_text = None
    /\ e.weather_temperature_f = NoneInt

\* e carries an end forecast
HasEndWeather(e) ==
    /\ e.weather_end_icon # None
    /\ e.weather_end_text # None
    /\ e.weather_end_temperature_f # NoneInt

\* e carries no end forecast
NoEndWeather(e) ==
    /\ e.weather_end_icon = None
    /\ e.weather_end_text = None
    /\ e.weather_end_temperature_f = NoneInt

\* the lookups of the j-th event fail instead
FailingAt(lookups, j) == [lookups EXCEPT ![j] = "raises"]


(* ====== TravelTimeResolver: one instance, a sequence of estimate calls === *)

\* _normalize
normalize(value) == join_split(lower(strip(value)))

\* the address strings estimate is called with
RawAddresses ==
    { <<>>, <<" ">>, <<"a">>, <<"A", " ">>, <<"s">>, <<"a", "s">> }

\* the point the geocoding service places an address at: two of the
\* addresses name the same place
GeoPoint(address) ==
    IF address = <<"s">> THEN <<2, 2>> ELSE <<1, 1>>

\* what the geocoding service does for a request
GeocodeAnswers == {"fails", "found"}

\* what the routing service does for a request: an error, no route, or a
\* route of so many seconds
RouteAnswers ==
    { [kind |-> "raises", seconds |-> 0], [kind |-> "none", seconds |-> 0],
      [kind |-> "route", seconds |-> 0], [kind |-> "route", seconds |-> 420] }

\* bound: estimate calls on one resolver
MaxCalls == 3

\* round(x / 60) for a natural number x: halves go to the even neighbour
round_div_60(x) ==
    LET q == x \div 60
        r == x % 60
    IN  IF r < 30 THEN q
        ELSE IF r > 30 THEN q + 1
        ELSE IF q % 2 = 0 THEN q ELSE q + 1

max(a, b) == IF a >= b THEN a ELSE b

\* TravelEstimate(minutes, text=f"{minutes} min")
TravelEstimate(minutes) ==
    [minutes |-> minutes,
     text |-> str_of_int(minutes) \o <<" ", "m", "i", "n">>]

\* a cache that never holds anything
CacheNeverHas(cache, key) == FALSE

\* key in cache / cache[key], for a cache held as a set of entries
cache_has(cache, key) == \E entry \in cache : entry.key = key
cache_get(cache, key) == (CHOOSE entry \in cache : entry.key = key).value
cache_put(cache, key, value) ==
    { entry \in cache : entry.key # key } \cup {[key |-> key, value |-> value]}

\* a resolver after __init__; requests and calls record the network requests
\* sent and the calls made
InitResolver ==
    /\ cfg \in { c \in SleepConfigs : ~c.enabled }
    /\ clock = 0
    /\ file = FileAbsent
    /\ display = NoDisplay
    /\ run = [p \in Procs |-> Idle]
    /\ hist = Hist0
    /\ pure = [op |-> "resolver", geocode_cache |-> {},
               duration_cache |-> {}, geocode_requests |-> <<>>,
               route_requests |-> <<>>, calls |-> <<>>]

\* _geocode(address) on the state r when the service would answer answer:
\* the state after it and the value returned (<<>> for None)
geocode(r, address, answer) ==
    IF cache_has(r.geocode_cache, address)
    THEN [r |-> r, value |-> cache_get(r.geocode_cache, address)]
    ELSE LET value == IF answer = "found" THEN <<GeoPoint(address)>>
                      ELSE <<>>
         IN  [r |-> [r EXCEPT
                      !.geocode_cache = cache_put(@, address, value),
                      !.geocode_requests = Append(@, address)],
              value |-> value]

\* the routing request of estimate and what it caches and returns
route(r, cache_key, origin_latlon, destination_latlon, answer) ==
    LET estimate ==
            IF answer.kind \in {"raises", "none"} THEN <<>>
            ELSE <<TravelEstimate(max(1, round_div_60(answer.seconds)))>>
    IN  [r |-> [r EXCEPT
                 !.duration_cache = cache_put(@, cache_key, estimate),
                 !.route_requests =
                     Append(@, [key |-> cache_key,
                                coordinates |-> <<origin_latlon,
                                                  destination_latlon>>])],
         value |-> estimate]

\* estimate(origin, destination) on the state r: the state after it and the
\* value returned (<<>> for None)
estimate_on(r, origin, destination, origin_answer, destination_answer, answer) ==
    LET origin_norm == normalize(origin)
        destination_norm == normalize(destination)
        cache_key == <<origin_norm, destination_norm>>
    IN  IF origin_norm = <<>> \/ destination_norm = <<>>
        THEN [r |-> r, value |-> <<>>]
        ELSE IF cache_has(r.duration_cache, cache_key)
        THEN [r |-> r, value |-> cache_get(r.duration_cache, cache_key)]
        ELSE IF origin_norm = destination_norm
        THEN [r |-> [r EXCEPT !.duration_cache =
                         cache_put(@, cache_key, <<TravelEstimate(0)>>)],
              value |-> <<TravelEstimate(0)>>]
        ELSE
        LET g1 == geocode(r, origin_norm, origin_answer)
            g2 == geocode(g1.r, destination_norm, destination_answer)
        IN  IF g1.value = <<>> \/ g2.value = <<>>
            THEN [r |-> [g2.r EXCEPT !.duration_cache =
                             cache_put(@, cache_key, <<>>)],
                  value |-> <<>>]
            ELSE route(g2.r, cache_key, g1.value[1], g2.value[1], answer)

\* one call of estimate; the call record keeps the normalized arguments, the
\* value returned and the number of network requests the call sent
Estimate(origin, destination, origin_answer, destination_answer, answer) ==
    /\ pure.op = "resolver"
    /\ Len(pure.calls) < MaxCalls
    /\ LET after == estimate_on(pure, origin, destination, origin_answer,
                                destination_answer, answer)
           sent == (Len(after.r.geocode_requests)
                        - Len(pure.geocode_requests))
                   + (Len(after.r.route_requests) - Len(pure.route_requests))
       IN  pure' = [after.r EXCEPT !.calls =
                       Append(@, [origin |-> normalize(origin),
                                  destination |-> normalize(destination),
                                  value |-> after.value,
                                  requests |-> sent])]
    /\ UNCHANGED <<cfg, clock, file, display, run, hist>>

NextResolver ==
    \E origin \in RawAddresses, destination \in RawAddresses :
        \E origin_answer \in GeocodeAnswers :
            \E destination_answer \in GeocodeAnswers :
                \E answer \in RouteAnswers :
                    Estimate(origin, destination, origin_answer,
                             destination_answer, answer)

SpecResolver == InitResolver /\ [][NextResolver]_vars

\* no value occurs twice in the sequence s
NoRepeat(s) == \A i, j \in 1..Len(s) : i < j => s[i] # s[j]

\* the address pairs and the coordinate pairs of the routing requests sent
RequestKeys ==
    [i \in 1..Len(pure.route_requests) |-> pure.route_requests[i].key]
RequestCoordinates ==
    [i \in 1..Len(pure.route_requests) |-> pure.route_requests[i].coordinates]

\* every repeated call returns what the first call with its arguments did
RepeatedCallsAgree ==
    \A i, j \in 1..Len(pure.calls) :
        (/\ i < j
         /\ pure.calls[i].origin = pure.calls[j].origin
         /\ pure.calls[i].destination = pure.calls[j].destination)
            => pure.calls[j].value = pure.calls[i].value


(* ====== _process_events on every order of a raw event list =============== *)

\* what the two providers return: timed events of one span under titles of
\* one fingerprint, with and without location, and all-day events under
\* titles that differ in case only
OrderEvents ==
    { Event(source, title, 540, 600, FALSE, location, None) :
        source \in {"google", "icloud"},
        title \in { <<"a", "s">>, <<" ", "A", "-", "s">> },
        location \in { None, <<"s">> } }
    \cup
    { Event(source, title, 0, DayMinutes, TRUE, None, None) :
        source \in {"google", "icloud"}, title \in { <<"a">>, <<"A">> } }

\* the lists that hold the events of s in some order
Orders(s) ==
    { [i \in 1..Len(s) |-> s[p[i]]] : p \in Permutations(1..Len(s)) }

InitOrder ==
    /\ cfg \in { c \in SleepConfigs : ~c.enabled }
    /\ clock = 0
    /\ file = FileAbsent
    /\ display = NoDisplay
    /\ run = [p \in Procs |-> Idle]
    /\ hist = Hist0
    /\ pure \in [op : {"args"}, events : EventLists(OrderEvents, MaxEvents),
                 travel_enabled : BOOLEAN, results : {{}}]

\* _process_events on each order of the raw list (two providers' results
\* are concatenated in the order they were fetched, lines 240-257)
ApplyOrders ==
    /\ pure.op = "args"
    /\ pure' = [pure EXCEPT
           !.op = "process_events",
           !.results =
               { process_events(s, pure.travel_enabled, <<"a">>,
                                BackToBackWindow, Addresses) :
                   s \in Orders(pure.events) }]
    /\ UNCHANGED <<cfg, clock, file, display, run, hist>>

NextOrder == ApplyOrders

SpecOrder == InitOrder /\ [][NextOrder]_vars

(* ============================ properties ============================== *)

\* C11: Source-fetch failure isolation: when the fetch of a calendar provider
\* (Google or iCloud) raises, _fetch_events_for_range does not raise; it
\* prints a diagnostic for the failing source and returns the processed
\* events of the remaining sources (the empty list when a failing Google
\* source is the only one enabled).
C11_FetchFailureIsolation ==
    /\ pure.pc # "raised"
    /\ pure.pc = "returned" =>
        /\ pure.result = process_events(RemainingEvents, pure.travel_enabled,
                                        <<"a">>, BackToBackWindow, Addresses)
        /\ GoogleFailed => "Google Calendar fetch failed" \in pure.printed
        /\ ICloudFailed => "iCloud fetch failed" \in pure.printed
        /\ GoogleFailed /\ ~pure.icloud_enabled => pure.result = <<>>

\* C12: Dedup commutativity on order: for any two candidate duplicates a and
\* b (same title fingerprint, start, end and all_day, with equal or empty
\* location fingerprints), _dedupe_events([a, b]) and _dedupe_events([b, a])
\* yield the same surviving set.
C12_DedupeOrderIndependent ==
    /\ pure.op = "dedupe_events"
    /\ Len(pure.events) = 2
    /\ Candidates(pure.events[1], pure.events[2])
    => Range(pure.deduped) = Range(pure.reversed)

\* C13 as stated: two events with the same title fingerprint, start, end and
\* all_day whose location fingerprints are non-empty and different both
\* appear in the output of _dedupe_events, for any input containing them.
C13_BothAppear ==
    pure.op = "dedupe_events" =>
        \A i, j \in 1..Len(pure.events) :
            ConflictingLocations(pure.events[i], pure.events[j]) =>
                /\ pure.events[i] \in Range(pure.deduped)
                /\ pure.events[j] \in Range(pure.deduped)

\* the input holds no event with the base key of a other than a and b
NoOtherWithBaseKey(a, b) ==
    \A k \in 1..Len(pure.events) :
        base_key(pure.events[k]) = base_key(a) => pure.events[k] \in {a, b}

\* the output index that stands for input event a: a was merged into it, and
\* it has a's base key and a's location fingerprint
StandsFor(idx, a) ==
    /\ a \in pure.cluster[idx]
    /\ base_key(pure.deduped[idx]) = base_key(a)
    /\ fingerprint_text(pure.deduped[idx].location)
           = fingerprint_text(a.location)

\* C13: Dedup preserves distinct-location events: two events with the same
\* title fingerprint, start, end and all_day whose location fingerprints are
\* non-empty and different are never merged: for any input containing them,
\* in any order, the output holds two different entries, one standing for
\* each (same base key, same location fingerprint); and both events appear
\* themselves when no third input event shares their base key.
C13_DistinctLocationsKept ==
    pure.op = "dedupe_events" =>
        \A i, j \in 1..Len(pure.events) :
            LET a == pure.events[i]
                b == pure.events[j]
            IN  ConflictingLocations(a, b) =>
                /\ \A idx \in 1..Len(pure.deduped) :
                       ~(a \in pure.cluster[idx] /\ b \in pure.cluster[idx])
                /\ \E ia, ib \in 1..Len(pure.deduped) :
                       ia # ib /\ StandsFor(ia, a) /\ StandsFor(ib, b)
                /\ NoOtherWithBaseKey(a, b) =>
                       a \in Range(pure.deduped) /\ b \in Range(pure.deduped)

C13_Witness ==
    /\ pure.op = "dedupe_events"
    /\ Len(pure.events) = MaxEvents
    /\ ConflictingLocations(pure.events[1], pure.events[MaxEvents])
    /\ pure.events[1] \notin Range(pure.deduped)
    /\ Len(pure.deduped) = 2

\* the titles of a and b differ only in case, whitespace layout or
\* punctuation: they are different texts with one title fingerprint
TitleVariants(a, b) ==
    /\ a.title # b.title
    /\ fingerprint_text(a.title) = fingerprint_text(b.title)

\* C14: Dedup merges title variants: two events with identical start, end
\* and all_day and no location whose titles differ only in case, whitespace
\* layout or punctuation (equal title fingerprints) collapse to exactly one
\* surviving event.
C14_TitleVariantsMerge ==
    /\ pure.op = "dedupe_events"
    /\ Len(pure.events) = 2
    /\ TitleVariants(pure.events[1], pure.events[2])
    /\ pure.events[1].start = pure.events[2].start
    /\ pure.events[1].end = pure.events[2].end
    /\ pure.events[1].all_day = pure.events[2].all_day
    /\ pure.events[1].location = None
    /\ pure.events[2].location = None
    => /\ Len(pure.deduped) = 1
       /\ pure.deduped[1] \in Range(pure.events)

C14_Witness ==
    /\ pure.op = "dedupe_events"
    /\ Len(pure.events) = 2
    /\ pure.events[1].title = <<"a", "s">>
    /\ pure.events[2].title = <<" ", "A", "-", "s">>
    /\ pure.events[1].start = pure.events[2].start
    /\ pure.events[1].all_day = pure.events[2].all_day
    /\ pure.events[1].location = None
    /\ pure.events[2].location = None
    /\ pure.deduped = << pure.events[2] >>

\* no event of the set has a quality score greater than that of e
MaxQuality(e, set) ==
    \A x \in set :
        ~tuple_greater(event_quality_score(x), event_quality_score(e))

\* C15: Dedup keeps the richer record: an incoming duplicate replaces the
\* stored representative only if its quality score (location-present flag,
\* then trimmed title length) is strictly greater: the survivor of every
\* merged cluster is one of its events, has a quality score greater than or
\* equal to that of every event merged into it, and is the first such event
\* in processing order; when a location-less event and a duplicate with a
\* location are merged, the survivor carries a location.
C15_RicherRecordKept ==
    pure.op = "dedupe_events" =>
        /\ Len(pure.cluster) = Len(pure.deduped)
        /\ \A idx \in 1..Len(pure.deduped) :
            LET survivor == pure.deduped[idx]
                merged == pure.cluster[idx]
                order == sorted_events(pure.events)
                best == { k \in 1..Len(order) :
                            order[k] \in merged /\ MaxQuality(order[k], merged) }
            IN  /\ survivor \in merged
                /\ MaxQuality(survivor, merged)
                /\ \E k \in best :
                       survivor = order[k] /\ \A j \in best : k <= j
                /\ (\E x \in merged : fingerprint_text(x.location) # <<>>)
                       => fingerprint_text(survivor.location) # <<>>

C15_Witness ==
    /\ pure.op = "dedupe_events"
    /\ Len(pure.events) = 2
    /\ Len(pure.deduped) = 1
    /\ pure.events[1].location # None
    /\ pure.events[2].location = None
    /\ len(strip(pure.events[2].title)) > len(strip(pure.events[1].title))
    /\ pure.deduped[1] = pure.events[1]
    /\ pure.deduped[1] # sorted_events(pure.events)[1]

\* C16: All-day summary correctness: when the input of _merge_all_day_events
\* contains at least one all-day event, the output contains exactly one
\* all-day event, at index 0, with source "merged", start the minimum start
\* and end the maximum end over all all-day inputs, followed by exactly the
\* timed input events sorted by (start, lower-cased title); with no all-day
\* input the output is exactly the timed events in that order.
C16_AllDaySummary ==
    pure.op = "merge_all_day_events" =>
        LET all_day == { i \in 1..Len(pure.events) : pure.events[i].all_day }
            out == pure.result
        IN  IF all_day # {}
            THEN /\ Len(out) >= 1
                 /\ out[1].all_day
                 /\ out[1].source = "merged"
                 /\ \A i \in all_day :
                        /\ out[1].start <= pure.events[i].start
                        /\ out[1].end >= pure.events[i].end
                 /\ \E i \in all_day : out[1].start = pure.events[i].start
                 /\ \E i \in all_day : out[1].end = pure.events[i].end
                 /\ TimedEventsOf(Tail(out), pure.events)
                 /\ SortedByStartTitle(Tail(out))
            ELSE /\ TimedEventsOf(out, pure.events)
                 /\ SortedByStartTitle(out)

C16_Witness ==
    /\ pure.op = "merge_all_day_events"
    /\ Len(pure.events) = MaxEvents
    /\ ~pure.events[1].all_day
    /\ pure.events[2].all_day
    /\ pure.events[MaxEvents].all_day
    /\ pure.events[2].start > pure.events[MaxEvents].start
    /\ Len(pure.result) = 2
    /\ pure.result[1].start = 0
    /\ pure.result[1].end = 2 * DayMinutes
    /\ pure.result[2] = pure.events[1]

\* C17: Signature stability under weather-only change: two calls of
\* _events_signature whose arguments are identical except for a weather
\* annotation field of an event (weather_icon, weather_text,
\* weather_temperature_f or one of the three weather_end_* fields) return the
\* same hash.
C17_WeatherOnlyChange ==
    pure.op = "events_signature" /\ pure.field \in WeatherFields
        => pure.new_hash = pure.hash

C17_Witness ==
    /\ pure.op = "events_signature"
    /\ pure.field = "weather_end_temperature_f"
    /\ pure.list = "tomorrow_events"
    /\ NewEvent # OldEvent
    /\ NewEvent.weather_end_temperature_f = <<Forecast.temperature_f>>
    /\ pure.new_hash = pure.hash

\* C18 as stated: with all other arguments fixed, changing any single event's
\* title, start, end, all_day flag, location or travel_time_text (in the
\* today or the tomorrow list) changes the value of _events_signature.
C18_AnyChangeChangesHash ==
    /\ pure.op = "events_signature"
    /\ pure.field \in RenderedFields
    /\ NewEvent # OldEvent
    => pure.new_hash # pure.hash

\* the change is one between None and the empty string
NoneToEmpty == ~truthy(OldEvent[pure.field]) /\ ~truthy(NewEvent[pure.field])

\* C18: Signature sensitivity: with all other arguments fixed, changing any
\* single event's title, start, end or all_day flag, or changing its location
\* or travel_time_text other than between None and the empty string, in the
\* today or the tomorrow list, changes the value of _events_signature
\* (digest taken as injective); a change of location or travel_time_text
\* between None and the empty string leaves it unchanged.
C18_SignatureSensitivity ==
    /\ pure.op = "events_signature"
    /\ pure.field \in RenderedFields
    /\ NewEvent # OldEvent
    => IF pure.field \in {"location", "travel_time_text"} /\ NoneToEmpty
       THEN pure.new_hash = pure.hash
       ELSE pure.new_hash # pure.hash

C18_Witness ==
    /\ pure.op = "events_signature"
    /\ pure.list = "tomorrow_events"
    /\ pure.field = "travel_time_text"
    /\ truthy(OldEvent.travel_time_text)
    /\ NewEvent.travel_time_text = None
    /\ pure.new_hash # pure.hash

\* C19: All-day events carry no enrichment: in the output of the full
\* pipeline (_process_events followed by _apply_weather_forecast), for any
\* input events (all-day inputs that already carry annotations included) and
\* any resolver results, every event with all_day true has travel_time_text
\* and all six weather fields unset.
C19_AllDayUnannotated ==
    pure.op = "pipeline" =>
        \A i \in 1..Len(pure.result) :
            pure.result[i].all_day => Unannotated(pure.result[i])

C19_Witness ==
    /\ pure.op = "pipeline"
    /\ \E i \in 1..Len(pure.events) :
           pure.events[i].all_day /\ ~Unannotated(pure.events[i])
    /\ Len(pure.result) = MaxEvents
    /\ pure.result[1].all_day
    /\ Unannotated(pure.result[1])
    /\ pure.result[2].travel_time_text # None
    /\ pure.result[2].weather_text # None
    /\ pure.result[MaxEvents].weather_end_text # None

\* C20: Fingerprint idempotence: for every text x and for None,
\* _fingerprint_text(_fingerprint_text(x)) equals _fingerprint_text(x), and
\* the fingerprint of the empty string or None is the empty string.
C20_FingerprintIdempotence ==
    pure.op = "fingerprint_text" =>
        /\ pure.twice = pure.once
        /\ (pure.x \in {None, <<>>} => pure.once = <<>>)

\* C21: Overlapping invocations are unsafe: run_once reads the state file
\* once at start and writes it once at end without locking.  As long as no
\* invocation has started while another was under way, the banner is applied
\* at most once on the day and no invocation overwrites a state file other
\* than the one it read; with overlapping invocations both are reachable
\* (the witness).
C21_NonOverlappingSafe ==
    ~hist.overlapped =>
        /\ hist.day_banners <= 1
        /\ \A p \in OverlapProcs : ~StaleSave(p)

\* two overlapping invocations read the same state, both render with the
\* banner on the same day, and the second writer overwrites the first's state
C21_Witness ==
    /\ hist.overlapped
    /\ hist.day_banners = 2
    /\ \A p \in OverlapProcs :
           /\ run[p].pc = "done" /\ run[p].outcome = "rendered"
           /\ run[p].should_apply
           /\ run[p].file_at_start = FileAbsent
    /\ run[1].sig # run[2].sig
    /\ file = FileJson(run[2].state)
    /\ file.data.last_hash # run[1].sig

\* k1 <= k2 on sort keys
sort_key_leq(k1, k2) == ~sort_key_less(k2, k1)

\* C22: Dedup output is sorted canonically: for every input list, the list
\* returned by _dedupe_events is in non-decreasing order of the display sort
\* key (all-day first, then start, then lower-cased title), including after
\* a stored representative has been replaced by a higher-quality duplicate.
C22_DedupeOutputSorted ==
    pure.op = "dedupe_events" =>
        \A i, j \in 1..Len(pure.deduped) :
            i < j => sort_key_leq(event_sort_key(pure.deduped[i]),
                                  event_sort_key(pure.deduped[j]))


(* ====== C23 ====== *)

\* the origin the claim prescribes for the timed, located event at i
C23_ExpectedOrigin(i) ==
    LET events == pure.events
        before == TimedBefore(events, i)
    IN  IF /\ before # {}
           /\ truthy(events[PrecedingTimed(events, i)].location)
           /\ events[i].start - events[PrecedingTimed(events, i)].end
                  <= pure.window
        THEN events[PrecedingTimed(events, i)].location
        ELSE pure.origin_address

\* C23: with an origin address, every timed event with a location is looked
\* up from the location of the timed event immediately before it when that
\* event has a location and starts at most the window before (boundary
\* included), and from the configured origin otherwise; all-day events pass
\* through untouched and never count as the event before; without an origin
\* address the stage returns its input and looks nothing up.
C23_TravelOriginChaining ==
    pure.op = "apply_travel_times" =>
        IF ~truthy(pure.origin_address)
        THEN /\ pure.result = pure.events
             /\ \A i \in 1..Len(pure.origins) : pure.origins[i] = None
        ELSE /\ Len(pure.result) = Len(pure.events)
             /\ Len(pure.origins) = Len(pure.events)
             /\ \A i \in 1..Len(pure.events) :
                    IF pure.events[i].all_day
                    THEN /\ pure.result[i] = pure.events[i]
                         /\ pure.origins[i] = None
                    ELSE IF truthy(pure.events[i].location)
                         THEN pure.origins[i] = C23_ExpectedOrigin(i)
                         ELSE pure.origins[i] = None

\* a located timed event starting exactly the window after the located timed
\* event before it, with an all-day event between them, was looked up from
\* that event's location
C23_Witness ==
    /\ pure.op = "apply_travel_times"
    /\ truthy(pure.origin_address)
    /\ \E i \in 1..Len(pure.events) :
          /\ ~pure.events[i].all_day
          /\ truthy(pure.events[i].location)
          /\ TimedBefore(pure.events, i) # {}
          /\ PrecedingTimed(pure.events, i) < i - 1
          /\ pure.events[i].start
                 - pure.events[PrecedingTimed(pure.events, i)].end
                 = pure.window
          /\ pure.origins[i]
                 = pure.events[PrecedingTimed(pure.events, i)].location
          /\ pure.origins[i] # pure.origin_address
          /\ pure.result[i].travel_time_text # None


(* ====== C24 ====== *)

\* the travel lookup of the event at i was made and gave an estimate
C24_TravelLookupSucceeded(i) ==
    /\ pure.origins[i] # None
    /\ resolver_estimate(pure.routes, pure.origins[i],
                         pure.events[i].location) # None

\* the travel stage keeps the events and their order, and a timed event
\* carries travel text exactly when its own lookup gave an estimate
C24_TravelLocal ==
    /\ Len(pure.result) = Len(pure.events)
    /\ \A i \in 1..Len(pure.events) :
          /\ CoreFields(pure.result[i]) = CoreFields(pure.events[i])
          /\ (truthy(pure.origin_address) /\ ~pure.events[i].all_day) =>
                 (pure.result[i].travel_time_text # None
                      <=> C24_TravelLookupSucceeded(i))

\* the weather stage keeps the events and their order, a timed event carries
\* a start (end) forecast exactly when its own start (end) lookup was made
\* and gave one, and making the lookups of one event fail changes no other
\* event of the output
C24_WeatherLocal ==
    /\ Len(pure.result) = Len(pure.events)
    /\ \A i \in 1..Len(pure.events) :
          /\ CoreFields(pure.result[i]) = CoreFields(pure.events[i])
          /\ pure.result[i].travel_time_text
                 = pure.events[i].travel_time_text
          /\ ~pure.events[i].all_day =>
                /\ IF pure.start_lookups[i] = "forecast"
                   THEN HasStartWeather(pure.result[i])
                   ELSE NoStartWeather(pure.result[i])
                /\ IF /\ end_lookup_made(pure.events[i], pure.include_end)
                      /\ pure.end_lookups[i] = "forecast"
                   THEN HasEndWeather(pure.result[i])
                   ELSE NoEndWeather(pure.result[i])
    /\ \A j \in 1..Len(pure.events) :
          LET other == apply_weather_forecast(
                           pure.events, pure.include_end,
                           FailingAt(pure.start_lookups, j),
                           FailingAt(pure.end_lookups, j))
          IN  \A i \in 1..Len(pure.events) \ {j} : other[i] = pure.result[i]

C25_Memoization ==
    pure.op = "resolver" =>
        /\ NoRepeat(RequestKeys)
        /\ NoRepeat(RequestCoordinates)
        /\ RepeatedCallsAgree
        /\ \A i \in 1..Len(pure.calls) :
               pure.calls[i].origin = pure.calls[i].destination =>
                   /\ pure.calls[i].value = <<TravelEstimate(0)>>
                   /\ pure.calls[i].requests = 0

\* C25: on one resolver the routing service is asked at most once per
\* normalized (origin, destination) pair and the geocoding service at most
\* once per normalized address, repeated calls return what the first
\* returned, and a call whose non-empty origin equals its destination after
\* normalization returns the zero-minute estimate without a network request.
C25_MemoizationByAddress ==
    pure.op = "resolver" =>
        /\ NoRepeat(RequestKeys)
        /\ NoRepeat(pure.geocode_requests)
        /\ RepeatedCallsAgree
        /\ \A i \in 1..Len(pure.calls) :
               (/\ pure.calls[i].origin = pure.calls[i].destination
                /\ pure.calls[i].origin # <<>>) =>
                   /\ pure.calls[i].value = <<TravelEstimate(0)>>
                   /\ pure.calls[i].requests = 0

\* two routing requests for the same coordinates under different addresses,
\* a repeated call answered with the cached absence of a result, and a call
\* from an address to itself answered without a request
C25_Witness ==
    /\ pure.op = "resolver"
    /\ Len(pure.route_requests) = 2
    /\ pure.route_requests[1].coordinates = pure.route_requests[2].coordinates
    /\ pure.route_requests[1].key # pure.route_requests[2].key
    /\ pure.calls[2].value = <<>>
    /\ Len(pure.calls) = 3
    /\ pure.calls[3].origin = pure.calls[2].origin
    /\ pure.calls[3].destination = pure.calls[2].destination
    /\ pure.calls[3].requests = 0
    /\ pure.calls[3].value = <<>>


(* ====== C26 ====== *)

\* C26: for a timed event the forecast at its end is looked up, and the
\* weather_end fields can be set, only when the include flag is on and the
\* event lasts strictly more than 60 minutes; otherwise only the start is
\* looked up, the weather_end fields stay unset and the start forecast is
\* still attached when its lookup gave one.
C26_EndWeatherPolicy ==
    pure.op = "apply_weather_forecast" =>
        \A i \in 1..Len(pure.events) :
            ~pure.events[i].all_day =>
                LET e == pure.events[i]
                    looked == weather_lookups_of(pure.events,
                                                 pure.include_end, i)
                IN  IF pure.include_end /\ e.end - e.start > 60
                    THEN /\ looked = <<e.start, e.end>>
                         /\ pure.end_lookups[i] = "forecast"
                                <=> HasEndWeather(pure.result[i])
                    ELSE /\ looked = <<e.start>>
                         /\ NoEndWeather(pure.result[i])
                         /\ pure.start_lookups[i] = "forecast"
                                => HasStartWeather(pure.result[i])

\* with the flag on, an event of exactly 60 minutes got its start forecast
\* and no end forecast although the end lookup would have given one, next to
\* a longer event that got both
C26_Witness ==
    /\ pure.op = "apply_weather_forecast"
    /\ pure.include_end
    /\ \E i, j \in 1..Len(pure.events) :
          /\ ~pure.events[i].all_day
          /\ pure.events[i].end - pure.events[i].start = 60
          /\ pure.end_lookups[i] = "forecast"
          /\ HasStartWeather(pure.result[i])
          /\ NoEndWeather(pure.result[i])
          /\ ~pure.events[j].all_day
          /\ HasStartWeather(pure.result[j])
          /\ HasEndWeather(pure.result[j])


(* ====== C27 ====== *)

\* a and b have the same base key and location fingerprints that are equal
\* or of which one is empty
C27_Duplicates(a, b) ==
    /\ base_key(a) = base_key(b)
    /\ \/ fingerprint_text(a.location) = fingerprint_text(b.location)
       \/ fingerprint_text(a.location) = <<>>
       \/ fingerprint_text(b.location) = <<>>

\* the returned event r stands for the input event e
C27_Covers(r, e) ==
    /\ base_key(r) = base_key(e)
    /\ \/ fingerprint_text(r.location) = fingerprint_text(e.location)
       \/ fingerprint_text(e.location) = <<>>

\* C27: every event _dedupe_events returns is an input event as it came in,
\* no two returned events are duplicates of each other, and every input
\* event is returned or shares its base key with a returned event that has
\* its location fingerprint, unless its own location fingerprint is empty.
C27_DuplicateFreeCover ==
    pure.op = "dedupe_events" =>
        /\ \A i \in 1..Len(pure.deduped) :
               pure.deduped[i] \in Range(pure.events)
        /\ \A i, j \in 1..Len(pure.deduped) :
               i < j => ~C27_Duplicates(pure.deduped[i], pure.deduped[j])
        /\ \A e \in Range(pure.events) :
               \/ e \in Range(pure.deduped)
               \/ \E r \in Range(pure.deduped) : C27_Covers(r, e)

\* three inputs of one base key, one with a location of punctuation only and
\* two with different locations: the two located ones are returned, the
\* first of them in the place of the other input
C27_Witness ==
    /\ pure.op = "dedupe_events"
    /\ Len(pure.events) = 3
    /\ Len(pure.deduped) = 2
    /\ \A e \in Range(pure.events) : base_key(e) = base_key(pure.events[1])
    /\ \E e \in Range(pure.events) :
          /\ e.location = <<"-">>
          /\ e \notin Range(pure.deduped)
          /\ sorted_events(pure.events)[1] = e
    /\ fingerprint_text(pure.deduped[1].location) # <<>>
    /\ fingerprint_text(pure.deduped[2].location) # <<>>


(* ====== C28 ====== *)

\* C28: when a run has ended, the state file can be read; last_hash and
\* last_rendered_iso are both empty exactly when no image was ever shown; if
\* the run showed an image they are its signature and its timestamp, and if
\* it did not the state is the one the run started from; and a non-empty
\* last_sleep_banner_date is a date not later than the date of
\* last_rendered_iso.
C28_StateDescribesLastRender ==
    \A p \in Procs :
        LET r == run[p]
            state == load_state(file)
        IN  r.pc = "done" =>
                /\ ~LoadRaises(file)
                /\ (state.last_hash = <<>> /\ state.last_rendered_iso = <<>>)
                       <=> ~display.lit
                /\ r.shown =>
                       /\ state.last_hash = r.sig
                       /\ state.last_rendered_iso = isoformat(r.now)
                /\ (~r.shown /\ ~LoadRaises(r.file_at_start)) =>
                       state = load_state(r.file_at_start)
                /\ state.last_sleep_banner_date # <<>> =>
                       /\ IsIso(state.last_rendered_iso)
                       /\ state.last_sleep_banner_date[1]
                              <= state.last_rendered_iso[1]


(* ====== C29 ====== *)

\* C29: with sleep enabled, after every run that returns (rendered, skipped
\* for no change, or sleep-suppressed) the image on the display carries the
\* sleep banner if and only if the run's time was inside the sleep window.
C29_BannerTracksWindow ==
    \A p \in Procs :
        LET r == run[p]
        IN  (/\ cfg.enabled
             /\ r.pc = "done"
             /\ r.outcome \in {"rendered", "skipped", "suppressed"})
            => ((display.lit /\ display.banner) <=> in_sleep_of(cfg, r.now))


(* ====== C30 ====== *)

\* C30: _process_events returns the same event sequence for every order of
\* a raw event list.
C30_OrderIndependent ==
    pure.op = "process_events" => Cardinality(pure.results) = 1

====
